---------------------------- MODULE Spec2Model ----------------------------
(***************************************************************************)
(* Model of the CheatRenderFramework overlay renderer, both backends       *)
(* (factories/dx9/renderer_dx9.hpp and factories/dx11/renderer_dx11.hpp).  *)
(*                                                                         *)
(*   SpecList  : a RenderList driven through AddVertices / Clear.          *)
(*   SpecFrame : a Renderer with its default list, the device it draws on  *)
(*               and its fonts, driven through the frame protocol and the  *)
(*               device lost / reset entry points.                         *)
(*   SpecText  : Font::PreprocessText applied to bounded markup texts.     *)
(*                                                                         *)
(* The variable backend selects which of the two headers is modelled; it   *)
(* is fixed by Init and every operator that differs between the headers    *)
(* branches on it.                                                         *)
(***************************************************************************)
EXTENDS Integers, Sequences, FiniteSets, TLC

VARIABLES
    backend,        \* "dx9" or "dx11": which header is compiled
    _vertices,      \* RenderList::_vertices; a vertex is the number of the call that appended it
    _batches,       \* RenderList::_batches; records [count, topology, texture]
    callKeys,       \* history: <<topology, texture>> of every AddVertices call since the list was empty
    device,         \* the pipeline state bound on the graphics device: item -> value
    _maxVertices,   \* Renderer::_maxVertices
    _vertexBuffer,  \* Renderer::_d3dVertexBuffer (dx9) / _vertexBuffer (dx11): [id, capacity], id 0 = nullptr
    _resources,     \* dx11: the other device objects the Renderer owns: member -> object or nullptr
    _d3dPreviousStateBlock, \* dx9: [ptr, state], ptr = nullptr when released
    _d3dRenderStateBlock,   \* dx9: [ptr, state]
    _backupState,   \* dx11: Renderer::_backupState: item -> value
    _fonts,         \* Renderer::_fonts: handle -> Font
    _nextFontId,    \* Renderer::_nextFontId
    phase,          \* where the host is in its frame loop: "idle", "frame", "rendered"
    lastCall,       \* history: the Renderer entry point called last
    threw,          \* history: TRUE when that call ended by throwing
    hostState,      \* history: the device state at the last BeginFrame
    lastRender,     \* history: what Render uploaded and drew, until the frame ends
    text,           \* the text argument of Font::RenderText: a sequence of characters
    textFlags,      \* its flags argument: the set of the TextFlags bits that are set
    textSegments,   \* its return value: a sequence of <<text, color>> pairs
    textPc,         \* "given" before the call, "parsed" once it returned, "none" without a text
    rendered,       \* history: what Font::RenderText did since the last Initialize: [flags, quads, x, y]
    extent,         \* history: what Font::CalculateTextExtent returned since the last Initialize
    glyphs,         \* what GetTextExtentPoint32W reports: [cx: character -> width or Unmeasurable, cy: character -> height]
    _textureWidth,  \* Font::_textureWidth
    _textureHeight, \* Font::_textureHeight
    _charSpacing,   \* Font::_charSpacing
    _charCoords,    \* Font::_charCoords: character -> <<left, top, right, bottom>> in pixels
    atlasResult,    \* history: how the atlas passes of the last Initialize ended, "none" before the first
    firstBuild,     \* history: the atlas the constructor built, and whether it was rebuilt since
    auxList,        \* an auxiliary RenderList of the host: [vertices, batches]
    auxRendered,    \* history: TRUE when Render(auxList) was called since the last BeginFrame
    shapes,         \* history: the AddLine and AddCircle calls whose vertices the list holds
    heldRefs,       \* dx11: item -> references the state save took on the handle it read
                    \* there and that were not released since
    cleared         \* history: how many vertices the last Clear() of such a list dropped,
                    \* NotCleared before the first

listVars == <<_vertices, _batches, callKeys>>

rendererVars == <<_maxVertices, _vertexBuffer, _resources, _d3dPreviousStateBlock,
                  _d3dRenderStateBlock, _backupState, _fonts, _nextFontId>>

hostVars == <<device, phase, lastCall, threw, hostState, lastRender>>

textVars == <<text, textFlags, textSegments, textPc, extent, rendered>>

atlasVars == <<glyphs, _textureWidth, _textureHeight, _charSpacing, _charCoords, atlasResult,
               firstBuild>>

auxVars == <<auxList, auxRendered>>

geomVars == <<shapes, cleared>>

refVars == <<heldRefs>>

\* Clear() was not called
NotCleared == 0 - 1

-----------------------------------------------------------------------------
(* Bounds *)

\* AddVertices calls between two Clears
MaxCalls == 3
\* vertices handed to one AddVertices call
MaxCount == 2
\* shape calls (counted in AddVertices calls made before the call) per frame
MaxDraws == 1
\* segments of a circle
MaxSegments == 2
\* the maxVertices hints a Renderer is constructed with
SmallHint == 4
LargeHint == 12
\* fonts added to a Renderer
MaxFonts == 1
\* largest coordinate of a point of a shape
MaxCoord == 1
\* shape calls whose vertices are followed
MaxShapes == 2
\* the width of a wide glyph and the height of a tall one in ShelfReports
MaxShelfWidth == 3
MaxShelfHeight == 3
\* AddVertices calls on the list within one frame of SpecDraw
MaxListCalls == 2
\* characters of a text that is measured
MaxTextLen == 2
\* vertices an auxiliary list is let to pile up
MaxAuxVertices == 8
\* pieces a markup text is put together from
MaxPieces == 3
\* characters of the range g_charRangeMin .. g_charRangeMax - 1 (0x230 in the source)
NumChars == 3
\* the width and height of the atlas a Font starts from (1024 in the source)
SeedSize == 4
\* the glyph widths and the glyph heights the rasterizer reports
MaxGlyphWidth == 2
MaxGlyphHeight == 2

-----------------------------------------------------------------------------
(* Topologies and textures *)

Backends == {"dx9", "dx11"}

nullptr == "nullptr"

\* D3DPRIMITIVETYPE plus the D3DPT_FORCE_DWORD enumerator (dx9), and the
\* D3D11_PRIMITIVE_TOPOLOGY values the list distinguishes (dx11).
Topologies ==
    IF backend = "dx9"
    THEN {"POINTLIST", "LINELIST", "LINESTRIP", "TRIANGLELIST", "TRIANGLESTRIP",
          "TRIANGLEFAN", "FORCE_DWORD"}
    ELSE {"UNDEFINED", "POINTLIST", "LINELIST", "LINESTRIP", "TRIANGLELIST",
          "TRIANGLESTRIP", "LINESTRIP_ADJ", "TRIANGLESTRIP_ADJ"}

\* texture arguments a caller can pass: none, the white texture, a font atlas
Textures == {nullptr, "renderResourceView", "fontTexture"}

Batch(count, topology, texture) ==
    [count |-> count, topology |-> topology, texture |-> texture]

\* mutant: the triangle-strip case label is missing from the switch
IsStripCase_LineOnly(topology) ==
    IF backend = "dx9"
    THEN topology \in {"LINESTRIP"}
    ELSE topology \in {"LINESTRIP", "LINESTRIP_ADJ"}

\* the cases of the switch that follows the copy in AddVertices
IsStripCase(topology) ==
    IF backend = "dx9"
    THEN topology \in {"LINESTRIP", "TRIANGLESTRIP"}
    ELSE topology \in {"LINESTRIP", "LINESTRIP_ADJ", "TRIANGLESTRIP", "TRIANGLESTRIP_ADJ"}

\* the batch emplaced "to force the end of the strip"
BreakBatch ==
    IF backend = "dx9"
    THEN Batch(0, "FORCE_DWORD", nullptr)
    ELSE Batch(0, "TRIANGLELIST", nullptr)


\* The (topology, texture) pairs the modelled callers pass.  dx9 callers leave
\* the texture defaulted (nullptr) for untextured geometry, dx11 callers pass
\* the renderer's white texture; text passes the font's texture.  Besides the
\* pairs the Renderer itself uses there is a triangle fan (dx9), a pair with the
\* break batch's own topology and texture, and a line list (dx11).
CallKeys ==
    IF backend = "dx9"
    THEN {<<"TRIANGLELIST", nullptr>>, <<"TRIANGLELIST", "fontTexture">>,
          <<"LINESTRIP", nullptr>>, <<"TRIANGLESTRIP", nullptr>>,
          <<"TRIANGLEFAN", nullptr>>, <<"FORCE_DWORD", nullptr>>}
    ELSE {<<"TRIANGLELIST", "renderResourceView">>, <<"TRIANGLELIST", "fontTexture">>,
          <<"LINESTRIP", "renderResourceView">>, <<"TRIANGLESTRIP", "renderResourceView">>,
          <<"LINELIST", "renderResourceView">>, <<"TRIANGLELIST", nullptr>>}

-----------------------------------------------------------------------------
(* RenderList *)

Last(s) == s[Len(s)]

\* mutant: the coalescing test is lost, every call opens a batch
OpenBatch_Always(batches, topology, texture) ==
    Append(batches, Batch(0, topology, texture))

\* if (_batches.empty() || back().topology != topology || back().texture != texture)
\*     _batches.emplace_back(0, topology, texture);
OpenBatch(batches, topology, texture) ==
    IF \/ batches = <<>>
       \/ Last(batches).topology # topology
       \/ Last(batches).texture # texture
    THEN Append(batches, Batch(0, topology, texture))
    ELSE batches

\* mutant: "=" written for "+="
CountInto_Assign(batches, n) ==
    [batches EXCEPT ![Len(batches)].count = n]

\* _batches.back().count += N;
CountInto(batches, n) ==
    [batches EXCEPT ![Len(batches)].count = @ + n]

\* switch (topology) { case <strip>: _batches.emplace_back(0, <break>, nullptr); }
EndStrip(batches, topology) ==
    IF IsStripCase(topology) THEN Append(batches, BreakBatch) ELSE batches

\* _vertices.resize(numVertices + N); memcpy(&_vertices[size - N], vertexArray, ...)
CopyVertices(vertices, n, tag) ==
    vertices \o [i \in 1..n |-> tag]

\* RenderList::AddVertices, the effect both overloads share
AddVerticesTo(list, n, tag, topology, texture) ==
    [vertices |-> CopyVertices(list.vertices, n, tag),
     batches  |-> EndStrip(CountInto(OpenBatch(list.batches, topology, texture), n),
                           topology)]

TheList == [vertices |-> _vertices, batches |-> _batches]

\* one AddVertices call on the list, recorded in the call history
DoAddVertices(n, topology, texture) ==
    LET r == AddVerticesTo(TheList, n, Len(callKeys) + 1, topology, texture)
    IN  /\ Len(callKeys) < MaxCalls
        /\ _vertices' = r.vertices
        /\ _batches' = r.batches
        /\ callKeys' = Append(callKeys, <<topology, texture>>)

\* template <size_t N> AddVertices(const Vertex (&)[N], topology, texture): N >= 1
AddVerticesArray ==
    \E n \in 1..MaxCount, key \in CallKeys :
        /\ DoAddVertices(n, key[1], key[2])
        /\ UNCHANGED <<backend, textVars, atlasVars, auxVars, geomVars, refVars, rendererVars, hostVars>>

\* AddVertices(Vertex *, size_t vertexArrayCount, topology, texture): any count.
\* With a count of 0 the memcpy copies nothing.
AddVerticesPtr ==
    \E n \in 0..MaxCount, key \in CallKeys :
        /\ DoAddVertices(n, key[1], key[2])
        /\ UNCHANGED <<backend, textVars, atlasVars, auxVars, geomVars, refVars, rendererVars, hostVars>>

\* RenderList::Clear
Clear ==
    /\ _vertices' = <<>>
    /\ _batches' = <<>>
    /\ callKeys' = <<>>
    /\ UNCHANGED <<backend, textVars, atlasVars, auxVars, geomVars, refVars, rendererVars, hostVars>>

-----------------------------------------------------------------------------
(* The graphics device and the objects on it *)

\* a vertex buffer object; id 0 is the null pointer
NullBuffer == [id |-> 0, capacity |-> 0]

\* a vertex buffer of the host application
HostBuffer == [id |-> 0 - 1, capacity |-> 0]

\* dx9: the device states the recorded state blocks cover (every Set* call
\* between BeginStateBlock and EndStateBlock), grouped:
\*   RenderStates = the SetRenderState / SetTextureStageState / SetSamplerState values
DeviceItems9 == {"RenderStates", "FVF", "Texture0", "StreamSource", "PixelShader"}

\* dx11: the members of BACKUP_DX11_STATE
DeviceItems11 ==
    {"ScissorRects", "Viewports", "RS", "BlendState", "DepthStencilState",
     "PSShaderResource", "PSSampler", "PS", "VS", "VSConstantBuffer", "GS",
     "PSInstances", "VSInstances", "GSInstances",
     "PrimitiveTopology", "IndexBuffer", "VertexBuffer", "InputLayout"}

DeviceItems == IF backend = "dx9" THEN DeviceItems9 ELSE DeviceItems11

\* what a device holds before anything was bound on it
DefaultDevice ==
    IF backend = "dx9"
    THEN [i \in DeviceItems9 |->
            CASE i = "RenderStates" -> "default"
              [] i = "FVF" -> "0"
              [] i = "StreamSource" -> NullBuffer
              [] OTHER -> nullptr]
    ELSE [i \in DeviceItems11 |->
            CASE i = "ScissorRects" -> "none"
              [] i = "Viewports" -> "hostViewport"
              [] i = "PrimitiveTopology" -> "UNDEFINED"
              [] i = "VertexBuffer" -> NullBuffer
              [] OTHER -> nullptr]

\* what the host application has bound for its own rendering
HostDevice ==
    IF backend = "dx9"
    THEN [i \in DeviceItems9 |->
            CASE i = "RenderStates" -> "host"
              [] i = "FVF" -> "hostFVF"
              [] i = "Texture0" -> "hostTexture"
              [] i = "StreamSource" -> HostBuffer
              [] i = "PixelShader" -> "hostPixelShader"]
    ELSE [i \in DeviceItems11 |->
            CASE i = "ScissorRects" -> "hostScissor"
              [] i = "Viewports" -> "hostViewport"
              [] i = "PrimitiveTopology" -> "TRIANGLELIST"
              [] i = "VertexBuffer" -> HostBuffer
              [] OTHER -> "host" \o i]

HostDevices == {DefaultDevice, HostDevice}

\* dx9: the values AcquireStateBlock records between BeginStateBlock and
\* EndStateBlock (not applied to the device while recording)
RecordedState(vb) ==
    [i \in DeviceItems9 |->
        CASE i = "RenderStates" -> "overlay"
          [] i = "FVF" -> "g_vertexDefinition"
          [] i = "Texture0" -> nullptr
          [] i = "StreamSource" -> vb
          [] i = "PixelShader" -> nullptr]

\* dx9: a state block pointer
NullStateBlock == [ptr |-> nullptr, state |-> RecordedState(NullBuffer)]

StateBlock(state) == [ptr |-> "stateBlock", state |-> state]

\* dx11: the objects the constructor creates and Release() releases
OwnedMembers11 ==
    {"_vertexShader", "_pixelShader", "_vertexConstantBuffer", "_inputLayout",
     "_fontSampler", "_blendState", "_depthStencilState", "_rasterizerState"}

\* dx11: BACKUP_DX11_STATE _backupState = {}
ZeroBackupState ==
    [i \in DeviceItems11 |->
        CASE i = "ScissorRects" -> "none"
          [] i = "Viewports" -> "none"
          [] i = "PrimitiveTopology" -> "UNDEFINED"
          [] i = "VertexBuffer" -> NullBuffer
          [] OTHER -> nullptr]

\* dx11: the items AcquireStateBlock reads from the device context
SavedItems11 ==
    {"ScissorRects", "Viewports", "RS", "BlendState", "DepthStencilState",
     "PSShaderResource", "PSSampler", "PS", "VS", "VSConstantBuffer", "GS",
     "PSInstances", "VSInstances", "GSInstances"}

\* dx11: the items whose Get* call hands out a reference to what is bound
AcquiredItems11 == SavedItems11 \ {"ScissorRects", "Viewports"}

\* dx11: the members RestoreStateBlock calls Release() on, if not null
ReleasedItems11 ==
    {"RS", "BlendState", "DepthStencilState", "PSShaderResource", "PSSampler", "PS",
     "PSInstances", "VS", "VSConstantBuffer", "GS", "VSInstances",
     "IndexBuffer", "VertexBuffer", "InputLayout"}

\* the items that hold reference-counted handles
RefCountedItems ==
    IF backend = "dx9" THEN {} ELSE AcquiredItems11 \cup ReleasedItems11

\* no reference is held
NoRefs == [i \in RefCountedItems |-> 0]

\* whether the value of an item is the null handle
IsNull(i, value) == IF i = "VertexBuffer" THEN value.id = 0 ELSE value = nullptr

\* the ids of the vertex buffers something still refers to
BufferIdsInUse ==
    {_vertexBuffer.id, hostState[IF backend = "dx9" THEN "StreamSource" ELSE "VertexBuffer"].id,
     device[IF backend = "dx9" THEN "StreamSource" ELSE "VertexBuffer"].id,
     _d3dPreviousStateBlock.state["StreamSource"].id,
     _d3dRenderStateBlock.state["StreamSource"].id}

\* CreateVertexBuffer / CreateBuffer: a new object, distinct from every one in use
NewBuffer(capacity) ==
    [id |-> CHOOSE k \in 1..6 : k \notin BufferIdsInUse /\ \A j \in 1..(k - 1) : j \in BufferIdsInUse,
     capacity |-> capacity]

-----------------------------------------------------------------------------
(* Renderer: construction, device objects *)

\* the texture the Renderer's shape calls pass: the defaulted nullptr (dx9),
\* _renderResourceView (dx11)
ShapeTexture == IF backend = "dx9" THEN nullptr ELSE "renderResourceView"

\* dx9 Renderer::AcquireStateBlock after a successful CreateVertexBuffer: the
\* new buffer and the two recorded state blocks
AcquireStateBlock9(maxVertices) ==
    LET vb == NewBuffer(maxVertices)
    IN  [vb |-> vb,
         previous |-> StateBlock(RecordedState(vb)),
         render |-> StateBlock(RecordedState(vb))]

\* dx11 Renderer::Renderer: every owned member points at its object
CreatedResources11 == [m \in OwnedMembers11 |-> m]

\* Renderer::Release
ReleasedResources == [m \in DOMAIN _resources |-> nullptr]

\* history record of a Render that has not happened
NoRender == [batches |-> <<>>, uploads |-> <<>>, draws |-> <<>>]

\* Renderer::Renderer(d3dDevice, maxVertices), having returned without throwing
InitRenderer(hint) ==
    /\ _maxVertices = hint
    /\ _fonts = <<>>
    /\ _nextFontId = 1
    /\ _backupState = ZeroBackupState
    /\ IF backend = "dx9"
       THEN /\ _vertexBuffer = [id |-> 1, capacity |-> hint]
            /\ _d3dPreviousStateBlock = StateBlock(RecordedState(_vertexBuffer))
            /\ _d3dRenderStateBlock = StateBlock(RecordedState(_vertexBuffer))
            /\ _resources = <<>>
       ELSE /\ _vertexBuffer = [id |-> 1, capacity |-> hint]
            /\ _d3dPreviousStateBlock = NullStateBlock
            /\ _d3dRenderStateBlock = NullStateBlock
            /\ _resources = CreatedResources11

\* the host calls OnResetDevice right after OnLostDevice, and again if it threw
DeviceLost == lastCall = "OnLostDevice" \/ (lastCall = "OnResetDevice" /\ threw)

Returned(call) == lastCall' = call /\ threw' = FALSE

Threw(call) == lastCall' = call /\ threw' = TRUE

-----------------------------------------------------------------------------
(* Renderer: frame protocol *)

\* dx11 Renderer::AcquireStateBlock: the Get* calls fill these members only
AcquireStateBlock11 ==
    [i \in DeviceItems11 |-> IF i \in SavedItems11 THEN device[i] ELSE _backupState[i]]

\* dx11 Renderer::BeginFrame, after the save: the Set* calls
BoundForFrame11 ==
    [i \in DeviceItems11 |->
        CASE i = "Viewports" -> "overlayViewport"
          [] i = "VertexBuffer" -> _vertexBuffer
          [] i = "VSConstantBuffer" -> _resources["_vertexConstantBuffer"]
          [] i = "InputLayout" -> _resources["_inputLayout"]
          [] i = "VS" -> _resources["_vertexShader"]
          [] i = "PS" -> _resources["_pixelShader"]
          [] i \in {"VSInstances", "PSInstances"} -> nullptr
          [] i = "PSSampler" -> _resources["_fontSampler"]
          [] i = "BlendState" -> _resources["_blendState"]
          [] i = "DepthStencilState" -> _resources["_depthStencilState"]
          [] i = "RS" -> _resources["_rasterizerState"]
          [] OTHER -> device[i]]

\* dx11 Renderer::RestoreStateBlock: every member of _backupState is set back
RestoreStateBlock11 == [i \in DeviceItems11 |-> _backupState[i]]

\* dx11 AcquireStateBlock: the references the Get* calls take; the pointers
\* of an earlier save are overwritten
RefsAfterAcquire ==
    [i \in RefCountedItems |->
        IF i \in AcquiredItems11 /\ ~IsNull(i, device[i]) THEN 1 ELSE 0]

\* dx11 RestoreStateBlock: if (_backupState.X) _backupState.X->Release();
RefsAfterRestore ==
    [i \in RefCountedItems |->
        IF i \in ReleasedItems11 /\ ~IsNull(i, _backupState[i])
        THEN heldRefs[i] - 1 ELSE heldRefs[i]]

\* Renderer::BeginFrame
\*   dx9: _d3dPreviousStateBlock->Capture(); _d3dRenderStateBlock->Apply();
\*        (a null state block is dereferenced: the call does not return)
\*   dx11: AcquireStateBlock(); then the overlay state is bound
BeginFrame ==
    /\ phase = "idle" /\ ~DeviceLost
    /\ IF backend = "dx9"
       THEN /\ _d3dPreviousStateBlock.ptr # nullptr
            /\ _d3dRenderStateBlock.ptr # nullptr
            /\ _d3dPreviousStateBlock' = [_d3dPreviousStateBlock EXCEPT !.state = device]
            /\ device' = _d3dRenderStateBlock.state
            /\ UNCHANGED _backupState
       ELSE /\ _backupState' = AcquireStateBlock11
            /\ device' = BoundForFrame11
            /\ UNCHANGED _d3dPreviousStateBlock
    /\ heldRefs' = RefsAfterAcquire
    /\ hostState' = device
    /\ phase' = "frame"
    /\ auxRendered' = FALSE
    /\ Returned("BeginFrame")
    /\ UNCHANGED <<backend, textVars, atlasVars, geomVars, auxList, listVars, _maxVertices, _vertexBuffer, _resources,
                   _d3dRenderStateBlock, _fonts, _nextFontId, lastRender>>

\* Renderer::EndFrame
\*   dx9: _d3dPreviousStateBlock->Apply();   dx11: RestoreStateBlock();
EndFrame ==
    /\ phase = "rendered"
    /\ IF backend = "dx9"
       THEN /\ _d3dPreviousStateBlock.ptr # nullptr
            /\ device' = _d3dPreviousStateBlock.state
       ELSE device' = RestoreStateBlock11
    /\ heldRefs' = RefsAfterRestore
    /\ phase' = "idle"
    /\ lastRender' = NoRender
    /\ Returned("EndFrame")
    /\ UNCHANGED <<backend, textVars, atlasVars, auxVars, geomVars, listVars, rendererVars, hostState>>

\* the host application binds state for its own rendering between two frames
HostRender ==
    /\ phase = "idle" /\ ~DeviceLost
    /\ lastCall # "HostRender"
    /\ \E d \in HostDevices : device' = d
    /\ Returned("HostRender")
    /\ UNCHANGED <<backend, textVars, atlasVars, auxVars, geomVars, refVars, listVars, rendererVars, phase, hostState, lastRender>>

-----------------------------------------------------------------------------
(* Renderer: shape calls on the default list *)

\* the list together with the call history
Traced == [vertices |-> _vertices, batches |-> _batches, keys |-> callKeys]

\* renderList->AddVertices(v, topology, texture) on a traced list
AddV(t, n, topology, texture) ==
    LET r == AddVerticesTo([vertices |-> t.vertices, batches |-> t.batches],
                           n, Len(t.keys) + 1, topology, texture)
    IN  [vertices |-> r.vertices, batches |-> r.batches,
         keys |-> Append(t.keys, <<topology, texture>>)]

\* Renderer::AddRectFilled: Vertex v[6], triangle list
RectFilled(t) == AddV(t, 6, "TRIANGLELIST", ShapeTexture)

\* Renderer::AddRect: four AddRectFilled calls (top, bottom, left, right)
Rect(t) == RectFilled(RectFilled(RectFilled(RectFilled(t))))

\* Renderer::AddLine: dx9 a 4-vertex triangle strip, dx11 a 2-vertex line list
Line(t) ==
    IF backend = "dx9"
    THEN AddV(t, 4, "TRIANGLESTRIP", ShapeTexture)
    ELSE AddV(t, 2, "LINELIST", ShapeTexture)

\* Renderer::AddCircle: std::vector<Vertex> v(segments + 1), line strip
Circle(t, segments) == AddV(t, segments + 1, "LINESTRIP", ShapeTexture)

\* a shape call made by the host inside a frame
Drew(t) ==
    /\ phase = "frame"
    /\ Len(callKeys) < MaxDraws
    /\ _vertices' = t.vertices
    /\ _batches' = t.batches
    /\ callKeys' = t.keys
    /\ Returned("Draw")
    /\ UNCHANGED <<backend, textVars, atlasVars, auxVars, geomVars, refVars, rendererVars, device, phase, hostState, lastRender>>

AddRectFilled == Drew(RectFilled(Traced))

AddRect == Drew(Rect(Traced))

\* dx9 only: Renderer::AddGradientRect, Vertex v[6] through the pointer overload
AddGradientRect ==
    /\ backend = "dx9"
    /\ Drew(AddV(Traced, 6, "TRIANGLELIST", nullptr))

AddLine == Drew(Line(Traced))

AddCircle == \E segments \in 1..MaxSegments : Drew(Circle(Traced, segments))

-----------------------------------------------------------------------------
(* Renderer: Render *)

\* util::IsTopologyList
IsTopologyList(topology) == topology \in {"POINTLIST", "LINELIST", "TRIANGLELIST"}

\* util::GetTopologyOrder
GetTopologyOrder(topology) ==
    CASE topology = "POINTLIST" -> 1
      [] topology \in {"LINELIST", "LINESTRIP"} -> 2
      [] topology \in {"TRIANGLELIST", "TRIANGLESTRIP", "TRIANGLEFAN"} -> 3
      [] OTHER -> 0

\* uint32_t primitiveCount of the dx9 draw loop.  A uint32_t is written as the
\* 32-bit signed integer of the same bits, so a subtraction that wraps below
\* zero (a strip of fewer than order - 1 vertices) shows as a negative number;
\* the counts and offsets themselves stay far below 2^31.
PrimitiveCount(batch) ==
    LET order == GetTopologyOrder(batch.topology)
    IN  IF IsTopologyList(batch.topology)
        THEN batch.count \div order
        ELSE batch.count - (order - 1)

\* mutant: the draw loop has no test
IsDrawn9_Every(batch) == TRUE

\* dx9: if (batch.count && order > 0)
IsDrawn9(batch) == batch.count # 0 /\ GetTopologyOrder(batch.topology) > 0

DrawCall(topology, texture, start, count, source) ==
    [topology |-> topology, texture |-> texture, start |-> start, count |-> count,
     source |-> source]

\* dx9: the loop over _batches; source is the stream source bound on the device
RECURSIVE Draws9(_, _, _)
Draws9(batches, pos, source) ==
    IF batches = <<>> THEN <<>>
    ELSE LET batch == batches[1]
         IN  IF IsDrawn9(batch)
             THEN <<DrawCall(batch.topology, batch.texture, pos,
                             PrimitiveCount(batch), source)>>
                  \o Draws9(Tail(batches), pos + batch.count, source)
             ELSE Draws9(Tail(batches), pos, source)

\* dx11: the loop over _batches: Draw(batch.count, pos) for every batch
RECURSIVE Draws11(_, _, _)
Draws11(batches, pos, source) ==
    IF batches = <<>> THEN <<>>
    ELSE LET batch == batches[1]
         IN  <<DrawCall(batch.topology, batch.texture, pos,
                        batch.count, source)>>
             \o Draws11(Tail(batches), pos + batch.count, source)

\* the device after the draw loop
\*   dx9: SetTexture(0, batch.d3dTexture) before each DrawPrimitive
\*   dx11: RSSetScissorRects, PSSetShaderResources, IASetPrimitiveTopology per batch
DeviceAfterDraws(dev, draws) ==
    IF draws = <<>> THEN dev
    ELSE IF backend = "dx9"
         THEN [dev EXCEPT !["Texture0"] = Last(draws).texture]
         ELSE [dev EXCEPT !["ScissorRects"] = "overlayScissor",
                          !["PSShaderResource"] = Last(draws).texture,
                          !["PrimitiveTopology"] = Last(draws).topology]

Upload(buffer, n) == [id |-> buffer.id, capacity |-> buffer.capacity, n |-> n]

\* whether Render(renderList) throws
\*   dx9: the buffer has to grow and AcquireStateBlock() fails after Release()
\*   dx11: Map() of a null buffer fails: ThrowIfFailed
RenderThrows(list, created) ==
    LET numVertices == Len(list.vertices)
    IN  IF backend = "dx9"
        THEN numVertices > 0 /\ numVertices > _maxVertices /\ ~created
        ELSE numVertices > 0 /\ _vertexBuffer.id = 0

\* Renderer::Render(const RenderListPtr &renderList), dx9: the list is read,
\* never written.  created: whether CreateVertexBuffer succeeds if the buffer
\* has to grow.
RenderList9(list, created, call) ==
    LET numVertices == Len(list.vertices)
        grows == numVertices > 0 /\ numVertices > _maxVertices
        acquired == AcquireStateBlock9(numVertices)
        vb == IF grows THEN acquired.vb ELSE _vertexBuffer
        draws == Draws9(list.batches, 0, device["StreamSource"])
    IN  IF RenderThrows(list, created)
        THEN \* Release(), then AcquireStateBlock() throws
             /\ _maxVertices' = numVertices
             /\ _vertexBuffer' = NullBuffer
             /\ _d3dPreviousStateBlock' = NullStateBlock
             /\ _d3dRenderStateBlock' = NullStateBlock
             /\ Threw(call)
             /\ UNCHANGED <<device, lastRender>>
        ELSE \* Lock() on a null buffer does not return
             /\ numVertices > 0 => vb.id # 0
             /\ _maxVertices' = IF grows THEN numVertices ELSE _maxVertices
             /\ _vertexBuffer' = vb
             /\ _d3dPreviousStateBlock' =
                    IF grows THEN acquired.previous ELSE _d3dPreviousStateBlock
             /\ _d3dRenderStateBlock' =
                    IF grows THEN acquired.render ELSE _d3dRenderStateBlock
             /\ device' = DeviceAfterDraws(device, draws)
             /\ lastRender' =
                    [batches |-> list.batches,
                     uploads |-> IF numVertices > 0 THEN <<Upload(vb, numVertices)>> ELSE <<>>,
                     draws |-> draws]
             /\ Returned(call)

\* Renderer::Render(const RenderListPtr &renderList), dx11.
\* The buffer is never re-created: memcpy copies numVertices vertices into the
\* mapping of a buffer of _vertexBuffer.capacity vertices.
RenderList11(list, call) ==
    LET numVertices == Len(list.vertices)
        draws == Draws11(list.batches, 0, device["VertexBuffer"])
    IN  IF RenderThrows(list, TRUE)
        THEN /\ Threw(call)
             /\ UNCHANGED <<device, lastRender>>
        ELSE /\ device' = DeviceAfterDraws(device, draws)
             /\ lastRender' =
                    [batches |-> list.batches,
                     uploads |-> IF numVertices > 0
                                 THEN <<Upload(_vertexBuffer, numVertices)>> ELSE <<>>,
                     draws |-> draws]
             /\ Returned(call)

\* Render(renderList) on either backend
RenderListOn(list, created, call) ==
    IF backend = "dx9"
    THEN /\ RenderList9(list, created, call)
         /\ UNCHANGED <<_resources, _backupState>>
    ELSE /\ created
         /\ RenderList11(list, call)
         /\ UNCHANGED <<_maxVertices, _vertexBuffer, _resources, _d3dPreviousStateBlock,
                        _d3dRenderStateBlock, _backupState>>

\* Renderer::Render() = Render(_renderList) then _renderList->Clear()
Render ==
    /\ phase = "frame"
    /\ \E created \in BOOLEAN :
        /\ RenderListOn(TheList, created, "Render")
        /\ IF RenderThrows(TheList, created)
           THEN UNCHANGED <<listVars, phase>>
           ELSE /\ _vertices' = <<>> /\ _batches' = <<>> /\ callKeys' = <<>>
                /\ phase' = "rendered"
    /\ UNCHANGED <<backend, textVars, atlasVars, auxVars, geomVars, refVars, _fonts, _nextFontId, hostState>>

-----------------------------------------------------------------------------
(* Renderer: the vertices of AddLine and AddCircle *)

\* the points the host passes: Vec2 with small coordinates
Points == {<<x, 0>> : x \in 0..MaxCoord}

\* a Vertex by the terms its position is computed from:
\*   nan     the position is NaN (a term of it is 0.f / 0.f)
\*   at      the point the offset is added to
\*   offset  <<"none", 0, 0>>         nothing is added
\*           <<"normal", side, 0>>    side * (px, py), half the thickness along
\*                                    the normal of the segment
\*           <<"angle", i, segments>> radius * (cos, sin) of 2 * pi * i / segments
VertexAt(at, offset) == [nan |-> FALSE, at |-> at, offset |-> offset]

\* a Vertex whose x and y are NaN: NaN plus a coordinate is NaN
NaNVertex == [nan |-> TRUE, at |-> <<0, 0>>, offset |-> <<"none", 0, 0>>]

\* dx * dx + dy * dy of AddLine, the square of length
LengthSquared(v1, v2) ==
    (v2[1] - v1[1]) * (v2[1] - v1[1]) + (v2[2] - v1[2]) * (v2[2] - v1[2])

\* Vertex v[] of AddLine
\*   dx9: dx /= length; dy /= length; with length = 0.f both are 0.f / 0.f,
\*        so px, py and the four positions are NaN
\*   dx11: the two end points
LineVertices(v1, v2) ==
    IF backend = "dx9"
    THEN IF LengthSquared(v1, v2) = 0
         THEN <<NaNVertex, NaNVertex, NaNVertex, NaNVertex>>
         ELSE <<VertexAt(v1, <<"normal", 1, 0>>), VertexAt(v1, <<"normal", 0 - 1, 0>>),
                VertexAt(v2, <<"normal", 1, 0>>), VertexAt(v2, <<"normal", 0 - 1, 0>>)>>
    ELSE <<VertexAt(v1, <<"none", 0, 0>>), VertexAt(v2, <<"none", 0, 0>>)>>

\* mutant: for (int i = 0; i < segments; i++) on a vector of segments elements
CircleVertices_Open(pos, segments) ==
    [k \in 1..segments |-> VertexAt(pos, <<"angle", k - 1, segments>>)]

\* std::vector<Vertex> v(segments + 1); for (int i = 0; i <= segments; i++) v[i] = ...
CircleVertices(pos, segments) ==
    [k \in 1..(segments + 1) |-> VertexAt(pos, <<"angle", k - 1, segments>>)]

\* renderList->AddVertices(v, topology, texture) with the vertices themselves
AddVertexArray(list, v, topology, texture) ==
    [vertices |-> list.vertices \o v,
     batches  |-> AddVerticesTo(list, Len(v), 0, topology, texture).batches]

\* a shape call and its arguments
Shape(call, v1, v2, segments) ==
    [call |-> call, v1 |-> v1, v2 |-> v2, segments |-> segments]

\* a shape call on the default list whose vertices are kept
Appended(r, topology, shape) ==
    /\ Len(callKeys) < MaxShapes
    /\ _vertices' = r.vertices
    /\ _batches' = r.batches
    /\ callKeys' = Append(callKeys, <<topology, ShapeTexture>>)
    /\ shapes' = Append(shapes, shape)
    /\ Returned(shape.call)
    /\ UNCHANGED <<backend, textVars, atlasVars, auxVars, refVars, rendererVars, device, phase, hostState,
                   lastRender, cleared>>

\* Renderer::AddLine(v1, v2, color)
LineWith(v1, v2) ==
    LET topology == IF backend = "dx9" THEN "TRIANGLESTRIP" ELSE "LINELIST"
    IN  Appended(AddVertexArray(TheList, LineVertices(v1, v2), topology, ShapeTexture),
                 topology, Shape("AddLine", v1, v2, 0))

LineAt == \E v1 \in Points, v2 \in Points : LineWith(v1, v2)

\* Renderer::AddCircle(pos, radius, color, segments), segments >= 1
CircleWith(pos, segments) ==
    Appended(AddVertexArray(TheList, CircleVertices(pos, segments), "LINESTRIP", ShapeTexture),
             "LINESTRIP", Shape("AddCircle", pos, pos, segments))

\* mutant: _vertices.clear() alone
Cleared_KeepsBatches(list) == [vertices |-> <<>>, batches |-> list.batches]

\* RenderList::Clear: _vertices.clear(); _batches.clear();
Cleared(list) == [vertices |-> <<>>, batches |-> <<>>]

\* RenderList::Clear on the list the shapes were drawn into
ClearShapes ==
    /\ _vertices' = Cleared(TheList).vertices
    /\ _batches' = Cleared(TheList).batches
    /\ callKeys' = <<>>
    /\ shapes' = <<>>
    /\ cleared' = Len(_vertices)
    /\ UNCHANGED <<backend, textVars, atlasVars, auxVars, refVars, rendererVars, hostVars>>

CircleAt == \E pos \in Points, segments \in 1..MaxSegments : CircleWith(pos, segments)

-----------------------------------------------------------------------------
(* The host's own render list *)

\* RenderList(size_t maxVertices): _vertices.reserve(maxVertices), no batch
EmptyList == [vertices |-> <<>>, batches |-> <<>>]

\* dx9 Renderer::CreateRenderList: make_shared<RenderList>(_maxVertices); a
\* dx11 host constructs the RenderList itself.  The host keeps the new list
\* in place of the one it held.
CreateRenderList ==
    /\ auxList' = EmptyList
    /\ auxRendered' = FALSE
    /\ Returned("CreateRenderList")
    /\ UNCHANGED <<backend, textVars, atlasVars, geomVars, refVars, listVars, _maxVertices, _vertexBuffer,
                   _resources, _d3dPreviousStateBlock, _d3dRenderStateBlock, _backupState,
                   _fonts, _nextFontId, device, phase, hostState, lastRender>>

\* Renderer::AddRectFilled(renderList, ...) with the host's list
AddRectFilledTo ==
    /\ phase = "frame"
    /\ Len(auxList.vertices) + 6 <= MaxAuxVertices
    /\ auxList' = AddVerticesTo(auxList, 6, 0, "TRIANGLELIST", ShapeTexture)
    /\ Returned("AddRectFilled")
    /\ UNCHANGED <<backend, textVars, atlasVars, geomVars, refVars, listVars, _maxVertices, _vertexBuffer,
                   _resources, _d3dPreviousStateBlock, _d3dRenderStateBlock, _backupState,
                   _fonts, _nextFontId, device, phase, hostState, lastRender, auxRendered>>

\* Renderer::AddLine(renderList, ...) with the host's list
AddLineTo ==
    /\ phase = "frame"
    /\ Len(auxList.vertices) + 4 <= MaxAuxVertices
    /\ auxList' = IF backend = "dx9"
                  THEN AddVerticesTo(auxList, 4, 0, "TRIANGLESTRIP", ShapeTexture)
                  ELSE AddVerticesTo(auxList, 2, 0, "LINELIST", ShapeTexture)
    /\ Returned("AddLine")
    /\ UNCHANGED <<backend, textVars, atlasVars, geomVars, refVars, listVars, _maxVertices, _vertexBuffer,
                   _resources, _d3dPreviousStateBlock, _d3dRenderStateBlock, _backupState,
                   _fonts, _nextFontId, device, phase, hostState, lastRender, auxRendered>>

\* Renderer::Render(renderList) with the host's list: no Clear() follows
RenderAux ==
    /\ phase = "frame"
    /\ \E created \in BOOLEAN :
        /\ RenderListOn(auxList, created, "RenderList")
        /\ auxRendered' = (auxRendered \/ ~RenderThrows(auxList, created))
    /\ UNCHANGED <<backend, textVars, atlasVars, geomVars, refVars, listVars, auxList, _fonts, _nextFontId,
                   phase, hostState>>

\* renderList->Clear() by the host on its own list
ClearAux ==
    /\ auxList' = EmptyList
    /\ UNCHANGED <<backend, textVars, atlasVars, geomVars, refVars, listVars, rendererVars, hostVars, auxRendered>>

-----------------------------------------------------------------------------
(* Font: the device-object life cycle *)

\* how a run of Font::Initialize ends:
\*   "ok"         it returns
\*   "noTexture"  it throws before the texture exists (CreateGdiFont,
\*                EstimateTextureSize or CreateTexture failed)
\*   "noAlphabet" it throws after the texture was created (CreateDIBSection or
\*                RenderAlphabet failed)
InitializeOutcomes == {"ok", "noTexture", "noAlphabet"}

\* Font::Initialize.  lost is history: TRUE from OnLostDevice until the next
\* Initialize that returns.
Initialize(font, outcome) ==
    [_initialized |-> outcome = "ok",
     _fontTexture |-> IF outcome = "noTexture" THEN font._fontTexture ELSE "fontTexture",
     lost |-> font.lost /\ outcome # "ok"]

\* Font::Font: the member initializers, before the body calls Initialize()
NewFont == [_initialized |-> FALSE, _fontTexture |-> nullptr, lost |-> FALSE]

\* Font::IsInitialized
IsInitialized(font) == font._initialized

\* Font::OnLostDevice = Release(): SafeRelease(&_fontTexture)
FontOnLostDevice(font) == [font EXCEPT !._fontTexture = nullptr, !.lost = TRUE]

\* Font::OnResetDevice = Initialize()
FontOnResetDevice(font, outcome) == Initialize(font, outcome)

\* Renderer::AddFont: make_shared<Font> (the constructor runs Initialize), then
\* the handle is taken and the font registered; nothing is registered if the
\* constructor throws
AddFont ==
    /\ phase = "idle" /\ ~DeviceLost
    /\ _nextFontId <= MaxFonts
    /\ \E outcome \in InitializeOutcomes :
          IF outcome = "ok"
          THEN /\ _fonts' = Append(_fonts, Initialize(NewFont, outcome))
               /\ _nextFontId' = _nextFontId + 1
               /\ Returned("AddFont")
          ELSE /\ UNCHANGED <<_fonts, _nextFontId>>
               /\ Threw("AddFont")
    /\ UNCHANGED <<backend, textVars, atlasVars, auxVars, geomVars, refVars, listVars, _maxVertices, _vertexBuffer, _resources,
                   _d3dPreviousStateBlock, _d3dRenderStateBlock, _backupState,
                   device, phase, hostState, lastRender>>

\* the font handles a caller passes: those AddFont can return, and 0 and
\* MaxFonts + 1, which it never returns
Handles == 0..(MaxFonts + 1)

\* mutant: the lookup is _fonts[fontId], which registers an empty entry for a
\* handle that is not there
FontsAfterFind_Subscript(fontId) ==
    IF fontId \in DOMAIN _fonts THEN _fonts ELSE (fontId :> NewFont) @@ _fonts

\* _fonts after this->_fonts.find(fontId): find registers nothing
FontsAfterFind(fontId) == _fonts

\* Renderer::AddText(fontId, text, pos, color, flags) for a text of one
\* printable glyph and no outline or shadow flag: "Font not found!" is thrown
\* for a handle that is not registered, else Font::RenderText appends the six
\* vertices of the glyph with the font's texture to the default list
AddTextWith(fontId) ==
    /\ phase = "frame"
    /\ _fonts' = FontsAfterFind(fontId)
    /\ IF fontId \in DOMAIN _fonts
       THEN LET t == AddV(Traced, 6, "TRIANGLELIST", _fonts[fontId]._fontTexture)
            IN  /\ Len(callKeys) < MaxDraws
                /\ _vertices' = t.vertices
                /\ _batches' = t.batches
                /\ callKeys' = t.keys
                /\ Returned("AddText")
       ELSE /\ Threw("AddText")
            /\ UNCHANGED listVars
    /\ UNCHANGED <<backend, textVars, atlasVars, auxVars, geomVars, refVars, _maxVertices, _vertexBuffer, _resources,
                   _d3dPreviousStateBlock, _d3dRenderStateBlock, _backupState, _nextFontId,
                   device, phase, hostState, lastRender>>

AddText == \E fontId \in Handles : AddTextWith(fontId)

\* dx9 only: Renderer::CalculateTextExtent(fontId, text): "Font not found!" is
\* thrown for a handle that is not registered, else the font measures the text
CalculateTextExtentWith(fontId) ==
    /\ backend = "dx9"
    /\ phase = "frame"
    /\ _fonts' = FontsAfterFind(fontId)
    /\ IF fontId \in DOMAIN _fonts
       THEN Returned("CalculateTextExtent")
       ELSE Threw("CalculateTextExtent")
    /\ UNCHANGED <<backend, textVars, atlasVars, auxVars, geomVars, refVars, listVars, _maxVertices, _vertexBuffer,
                   _resources, _d3dPreviousStateBlock, _d3dRenderStateBlock, _backupState,
                   _nextFontId, device, phase, hostState, lastRender>>

RendererCalculateTextExtent == \E fontId \in Handles : CalculateTextExtentWith(fontId)

-----------------------------------------------------------------------------
(* Renderer: device lost / reset *)

\* Renderer::OnLostDevice: Release(), then font->OnLostDevice() for every font
OnLostDevice ==
    /\ phase = "idle" /\ ~DeviceLost
    /\ _vertexBuffer' = NullBuffer
    /\ _resources' = ReleasedResources
    /\ IF backend = "dx9"
       THEN /\ _d3dPreviousStateBlock' = NullStateBlock
            /\ _d3dRenderStateBlock' = NullStateBlock
       ELSE UNCHANGED <<_d3dPreviousStateBlock, _d3dRenderStateBlock>>
    /\ _fonts' = [h \in DOMAIN _fonts |-> FontOnLostDevice(_fonts[h])]
    /\ Returned("OnLostDevice")
    /\ UNCHANGED <<backend, textVars, atlasVars, auxVars, geomVars, refVars, listVars, _maxVertices, _backupState, _nextFontId,
                   device, phase, hostState, lastRender>>

\* the fonts after font->OnResetDevice() was called on the fonts in visit, in
\* that order, outcomes[h] being how Initialize ends for font h; the loop stops
\* at the first one that throws
RECURSIVE ResetFonts(_, _, _)
ResetFonts(fonts, visit, outcomes) ==
    IF visit = <<>> THEN fonts
    ELSE LET h == visit[1]
             next == [fonts EXCEPT ![h] = FontOnResetDevice(fonts[h], outcomes[h])]
         IN  IF outcomes[h] = "ok"
             THEN ResetFonts(next, Tail(visit), outcomes)
             ELSE next

\* the orders in which the loop over the unordered_map can visit the fonts
VisitOrders(handles) ==
    {v \in [1..Cardinality(handles) -> handles] :
        \A i, j \in 1..Cardinality(handles) : i # j => v[i] # v[j]}

\* Renderer::OnResetDevice
\*   dx9: AcquireStateBlock(), then font->OnResetDevice() for every font
\*   dx11: font->OnResetDevice() for every font
OnResetDevice ==
    /\ phase = "idle" /\ DeviceLost
    /\ \/ \* dx9: CreateVertexBuffer fails: ThrowIfFailed
          /\ backend = "dx9"
          /\ Threw("OnResetDevice")
          /\ UNCHANGED <<_vertexBuffer, _d3dPreviousStateBlock, _d3dRenderStateBlock,
                         _fonts>>
       \/ \E visit \in VisitOrders(DOMAIN _fonts) :
          \E outcomes \in [DOMAIN _fonts -> InitializeOutcomes] :
             /\ IF backend = "dx9"
                THEN LET acquired == AcquireStateBlock9(_maxVertices)
                     IN  /\ _vertexBuffer' = acquired.vb
                         /\ _d3dPreviousStateBlock' = acquired.previous
                         /\ _d3dRenderStateBlock' = acquired.render
                ELSE UNCHANGED <<_vertexBuffer, _d3dPreviousStateBlock,
                                 _d3dRenderStateBlock>>
             /\ _fonts' = ResetFonts(_fonts, visit, outcomes)
             /\ lastCall' = "OnResetDevice"
             /\ threw' = (\E h \in DOMAIN _fonts : outcomes[h] # "ok")
    /\ UNCHANGED <<backend, textVars, atlasVars, auxVars, geomVars, refVars, listVars, _maxVertices, _resources, _backupState, _nextFontId,
                   device, phase, hostState, lastRender>>

-----------------------------------------------------------------------------
(* Font::PreprocessText *)

\* iswxdigit: the value of a hexadecimal digit
HexValue ==
    [c \in {"0", "1", "2", "3", "4", "5", "6", "7", "8", "9"} |->
        CASE c = "0" -> 0 [] c = "1" -> 1 [] c = "2" -> 2 [] c = "3" -> 3 [] c = "4" -> 4
          [] c = "5" -> 5 [] c = "6" -> 6 [] c = "7" -> 7 [] c = "8" -> 8 [] c = "9" -> 9]
    @@ [c \in {"a", "A"} |-> 10] @@ [c \in {"b", "B"} |-> 11] @@ [c \in {"c", "C"} |-> 12]
    @@ [c \in {"d", "D"} |-> 13] @@ [c \in {"e", "E"} |-> 14] @@ [c \in {"f", "F"} |-> 15]

iswxdigit(c) == c \in DOMAIN HexValue

\* colorStr.erase(remove_if(.., !iswxdigit), ..)
RECURSIVE EraseNonHex(_)
EraseNonHex(str) ==
    IF str = <<>> THEN <<>>
    ELSE IF iswxdigit(str[1]) THEN <<str[1]>> \o EraseNonHex(Tail(str))
         ELSE EraseNonHex(Tail(str))

\* std::wcstoul(str, nullptr, 16) of a string of at most 8 hexadecimal digits,
\* converted to Color(uint32_t): the 32-bit value as its 8 hexadecimal
\* places, most significant first
wcstoul(str) ==
    [k \in 1..8 |-> IF k <= 8 - Len(str) THEN 0 ELSE HexValue[str[k - (8 - Len(str))]]]

\* the loop of PreprocessText from index i (0-based, as in the source) on
RECURSIVE Scan(_, _, _, _, _)
Scan(str, i, cleanText, currentColor, segs) ==
    IF i >= Len(str)
    THEN IF cleanText # <<>> THEN Append(segs, <<cleanText, currentColor>>) ELSE segs
    ELSE LET copied == Scan(str, i + 1, Append(cleanText, str[i + 1]), currentColor, segs)
         IN  IF str[i + 1] = "{" /\ Len(str) > i + 11 /\ str[i + 2] = "#"
             THEN LET hasAlpha == str[i + 11] = "}"
                      noAlpha == str[i + 9] = "}"
                      flushed == IF cleanText # <<>>
                                 THEN Append(segs, <<cleanText, currentColor>>)
                                 ELSE segs
                      digits == EraseNonHex(SubSeq(str, i + 3, i + 2 + (IF hasAlpha THEN 8 ELSE 6)))
                      colorStr == IF hasAlpha THEN digits ELSE <<"f", "f">> \o digits
                  IN  IF hasAlpha \/ noAlpha
                      THEN Scan(str, i + (IF hasAlpha THEN 10 ELSE 8) + 1, <<>>,
                                wcstoul(colorStr), flushed)
                      ELSE copied
             ELSE copied

\* Font::PreprocessText(text, defaultColor)
PreprocessText(str, defaultColor) == Scan(str, 0, <<>>, defaultColor, <<>>)

\* enum TextFlags: the bits RenderText is called with here
TextFlags == {"TEXT_FLAG_COLORTAGS"}

\* the color RenderText is called with: opaque white
DefaultColor == [k \in 1..8 |-> 15]

\* the pieces markup texts are put together from: plain text, a tag of 6 and
\* one of 8 digits, a tag with non-hexadecimal characters among the digits, a
\* tag of 3 digits, and a tag without the closing brace
Pieces ==
    {<<"x", "y", "z">>,
     <<"{", "#", "F", "F", "0", "0", "0", "0", "}">>,
     <<"{", "#", "8", "0", "0", "0", "F", "F", "0", "0", "}">>,
     <<"{", "#", "G", "G", "0", "0", "0", "0", "}">>,
     <<"{", "#", "F", "F", "F", "}">>,
     <<"{", "#", "F", "F", "0", "0", "0", "0">>}

RECURSIVE Texts(_)
Texts(n) ==
    IF n = 0 THEN {<<>>}
    ELSE Texts(n - 1) \cup {t \o p : t \in Texts(n - 1), p \in Pieces}

\* Font::RenderText: segments = PreprocessText(text, color)
CallPreprocessText ==
    /\ textPc = "given"
    /\ textSegments' = PreprocessText(text, DefaultColor)
    /\ textPc' = "parsed"
    /\ UNCHANGED <<backend, listVars, rendererVars, hostVars, atlasVars, auxVars, geomVars, refVars, text, textFlags, extent,
                   rendered>>

-----------------------------------------------------------------------------
(* Font: the glyph atlas (EstimateTextureSize, RenderAlphabet) *)

\* stands for no size: GetTextExtentPoint32W returned FALSE for the character
Unmeasurable == 0 - 1

\* the characters of the range, the first being g_charRangeMin = L' '
Chars == 1..NumChars

\* the reports of the rasterizer for one font: a width per character, or none,
\* and a height per character, here the height of the font for every character
GlyphReports ==
    {[cx |-> w, cy |-> [c \in Chars |-> h]] :
        w \in [Chars -> (1..MaxGlyphWidth) \cup {Unmeasurable}], h \in 1..MaxGlyphHeight}

\* reports with narrow and wide, low and tall glyphs in one font
ShelfReports ==
    [cx : [Chars -> {1, MaxShelfWidth, Unmeasurable}], cy : [Chars -> {1, MaxShelfHeight}]]

\* RenderText was not called
NotRendered == [flags |-> {}, quads |-> <<>>, x |-> 0 - 1, y |-> 0 - 1]

\* CalculateTextExtent was not called
NoExtent == [width |-> 0 - 1, height |-> 0 - 1]

\* no atlas was built by the constructor
NoBuild == [width |-> 0, height |-> 0, spacing |-> 0, coords |-> <<>>, rebuilt |-> FALSE]

\* a font whose reports are not looked at
NoGlyphs == [cx |-> <<>>, cy |-> <<>>]

\* Font::Font: _charSpacing(0), _textureWidth(1024), _textureHeight(1024),
\* an empty _charCoords
NewAtlas(g) ==
    /\ glyphs = g
    /\ _textureWidth = SeedSize
    /\ _textureHeight = SeedSize
    /\ _charSpacing = 0
    /\ _charCoords = <<>>
    /\ atlasResult = "none"
    /\ firstBuild = NoBuild

\* static_cast<long>(ceil(size.cy * 0.3f)), exact for the heights used here (cy < 10)
SpacingFor(cy) == (3 * cy + 9) \div 10

\* the loop of EstimateTextureSize from character c on: the texture size it ends with
RECURSIVE EstimateLoop(_, _, _, _, _, _, _)
EstimateLoop(g, c, x, y, width, height, spacing) ==
    IF c > NumChars THEN [width |-> width, height |-> height]
    ELSE IF g.cx[c] = Unmeasurable
         THEN EstimateLoop(g, c + 1, x, y, width, height, spacing)
         ELSE LET wraps == x + g.cx[c] + spacing > width
                  x1 == IF wraps THEN spacing ELSE x
                  y1 == IF wraps THEN y + g.cy[c] + 1 ELSE y
                  doubles == y1 + g.cy[c] > height
                  x2 == IF doubles THEN spacing ELSE x1
                  y2 == IF doubles THEN 0 ELSE y1
              IN  EstimateLoop(g, c + 1, x2 + g.cx[c] + 2 * spacing, y2,
                               IF doubles THEN width * 2 ELSE width,
                               IF doubles THEN height * 2 ELSE height, spacing)

\* mutant: the estimate doubles the texture whether or not the glyphs fit
EstimateTextureSize_Doubles(g, width, height, spacing) ==
    [width |-> width * 2, height |-> height * 2]

\* Font::EstimateTextureSize, the measurement of L" " having succeeded
EstimateTextureSize(g, width, height, spacing) ==
    EstimateLoop(g, 1, spacing, 0, width, height, spacing)

\* the loop of RenderAlphabet(hdc, false) from character c on: the HRESULT and
\* the entries written to _charCoords; drawn: whether ExtTextOutW succeeds
RECURSIVE AlphabetLoop(_, _, _, _, _, _, _, _, _)
AlphabetLoop(g, c, x, y, width, height, spacing, coords, drawn) ==
    IF c > NumChars THEN [hr |-> "S_OK", coords |-> coords]
    ELSE IF g.cx[c] = Unmeasurable
         THEN AlphabetLoop(g, c + 1, x, y, width, height, spacing, coords, drawn)
         ELSE LET wraps == x + g.cx[c] + spacing > width
                  x1 == IF wraps THEN spacing ELSE x
                  y1 == IF wraps THEN y + g.cy[c] + 1 ELSE y
                  rect == <<x1 - spacing, y1, x1 + g.cx[c] + spacing, y1 + g.cy[c]>>
              IN  IF y1 + g.cy[c] > height
                  THEN [hr |-> "E_NOT_SUFFICIENT_BUFFER", coords |-> coords]
                  ELSE IF ~drawn THEN [hr |-> "E_FAIL", coords |-> coords]
                  ELSE AlphabetLoop(g, c + 1, x1 + g.cx[c] + 2 * spacing, y1, width, height,
                                    spacing, (c :> rect) @@ coords, drawn)

\* Font::RenderAlphabet(hdc, false), the measurement of L" " having succeeded
RenderAlphabet(g, width, height, coords, drawn) ==
    AlphabetLoop(g, 1, SpacingFor(g.cy[1]), 0, width, height, SpacingFor(g.cy[1]), coords, drawn)

\* Font::Initialize as far as the atlas goes: EstimateTextureSize, the texture
\* and the bitmap of the estimated size, RenderAlphabet.  Both passes start
\* by measuring L" " and give up if that fails.
Initialize_Atlas ==
    /\ glyphs # NoGlyphs
    /\ \E drawn \in BOOLEAN :
          IF glyphs.cx[1] = Unmeasurable
          THEN /\ atlasResult' = "throws"
               /\ UNCHANGED <<_textureWidth, _textureHeight, _charSpacing, _charCoords>>
          ELSE LET size == EstimateTextureSize(glyphs, _textureWidth, _textureHeight,
                                               _charSpacing)
                   alphabet == RenderAlphabet(glyphs, size.width, size.height,
                                              _charCoords, drawn)
               IN  /\ _textureWidth' = size.width
                   /\ _textureHeight' = size.height
                   /\ _charSpacing' = SpacingFor(glyphs.cy[1])
                   /\ _charCoords' = alphabet.coords
                   /\ atlasResult' = alphabet.hr
    /\ text' = <<>> /\ extent' = NoExtent /\ rendered' = NotRendered
    /\ UNCHANGED <<backend, listVars, rendererVars, hostVars, auxVars, geomVars, refVars, textFlags, textSegments,
                   textPc, glyphs>>

\* Font::Initialize, from the constructor or from OnResetDevice
BuildAtlas == Initialize_Atlas /\ UNCHANGED firstBuild

\* the atlas as it is after the step
BuiltAtlas ==
    [width |-> _textureWidth', height |-> _textureHeight', spacing |-> _charSpacing',
     coords |-> _charCoords', rebuilt |-> FALSE]

\* Font::Font: Initialize(); the Font exists only if it did not throw
ConstructAtlas ==
    /\ atlasResult = "none"
    /\ Initialize_Atlas
    /\ firstBuild' = IF atlasResult' = "S_OK" THEN BuiltAtlas ELSE NoBuild

\* Font::OnLostDevice, then Font::OnResetDevice: Release(), Initialize()
RebuildAtlas ==
    /\ firstBuild # NoBuild
    /\ Initialize_Atlas
    /\ firstBuild' = [firstBuild EXCEPT !.rebuilt = TRUE]

-----------------------------------------------------------------------------
(* Font::CalculateTextExtent *)

\* characters are numbered from g_charRangeMin: L' ' is 1, L'\n' and L'\t'
\* lie below it
Space == 1
Newline == 10 - 31
Tab == 9 - 31

\* the characters the measured texts are written with
TextChars == {Newline, Tab, Space, Space + 1}

Max(a, b) == IF a > b THEN a ELSE b

\* this->_charCoords[L' ']: std::unordered_map::operator[] adds an entry of
\* zeros for a key it does not hold
CoordsAfterSubscript(coords, c) ==
    IF c \in DOMAIN coords THEN coords ELSE (c :> <<0, 0, 0, 0>>) @@ coords

\* mutant: the row is not closed after the loop
ClosedRow_Dropped(width, rowWidth) == width

\* width = std::max(width, rowWidth)
ClosedRow(width, rowWidth) == Max(width, rowWidth)

\* the loop of CalculateTextExtent from character i of str on.  _charCoords
\* holds the cells in texels of a texture whose sides are powers of two, so
\* (x2/W - x1/W) * W is the cell width without rounding; _textScale is 1.
RECURSIVE ExtentLoop(_, _, _, _, _, _, _, _)
ExtentLoop(str, i, coords, spacing, rowHeight, rowWidth, width, height) ==
    IF i > Len(str) THEN [width |-> ClosedRow(width, rowWidth), height |-> height]
    ELSE LET c == str[i]
         IN  IF c = Newline
             THEN ExtentLoop(str, i + 1, coords, spacing, rowHeight, 0,
                             ClosedRow(width, rowWidth), height + rowHeight)
             ELSE IF c >= Space /\ c \in DOMAIN coords
                  THEN LET charWidth == coords[c][3] - coords[c][1]
                       IN  ExtentLoop(str, i + 1, coords, spacing, rowHeight,
                                      rowWidth + charWidth - 2 * spacing, width, height)
                  ELSE ExtentLoop(str, i + 1, coords, spacing, rowHeight, rowWidth,
                                  width, height)

\* Font::CalculateTextExtent for given members
CalculateTextExtent(str, coords, spacing) ==
    LET found == CoordsAfterSubscript(coords, Space)
        rowHeight == found[Space][4] - found[Space][2]
    IN  ExtentLoop(str, 1, found, spacing, rowHeight, 0, 0, rowHeight)

\* the texts that are measured
RECURSIVE CharTexts(_)
CharTexts(n) ==
    IF n = 0 THEN {<<>>}
    ELSE CharTexts(n - 1) \cup {Append(t, c) : t \in CharTexts(n - 1), c \in TextChars}

\* L"a\nbb", a and b being two characters of the atlas
TwoRows == <<Space + 1, Newline, Space, Space>>

\* the texts that are measured: the short ones and L"a\nbb"
MeasuredTexts == CharTexts(MaxTextLen) \cup {TwoRows}

\* Font::CalculateTextExtent(text) on an initialized font, once per font
FontCalculateTextExtent ==
    /\ atlasResult = "S_OK"
    /\ extent = NoExtent
    /\ \E str \in MeasuredTexts :
        /\ text' = str
        /\ extent' = CalculateTextExtent(str, _charCoords, _charSpacing)
    /\ _charCoords' = CoordsAfterSubscript(_charCoords, Space)
    /\ UNCHANGED <<backend, listVars, rendererVars, hostVars, auxVars, geomVars, refVars, textFlags, textSegments,
                   textPc, glyphs, _textureWidth, _textureHeight, _charSpacing, atlasResult,
                   firstBuild, rendered>>

-----------------------------------------------------------------------------
(* Font::RenderText: the quads and the cursor *)

\* the bits of enum TextFlags that choose a quad behind the glyph
QuadFlags == {"TEXT_FLAG_OUTLINE", "TEXT_FLAG_DROPSHADOW"}

\* the six vertices one AddVertices call of RenderText appends for character
\* c, the cursor being at <<x, y>>
Quad(kind, c, x, y) == [kind |-> kind, c |-> c, x |-> x, y |-> y]

\* mutant: the drop shadow is drawn whenever its flag is set
BackgroundQuads_Both(flags, c, x, y) ==
    (IF "TEXT_FLAG_OUTLINE" \in flags THEN <<Quad("outline", c, x, y)>> ELSE <<>>)
    \o (IF "TEXT_FLAG_DROPSHADOW" \in flags THEN <<Quad("shadow", c, x, y)>> ELSE <<>>)

\* if (flags & TEXT_FLAG_OUTLINE) AddVertices(outlineV, ...)
\* else if (flags & TEXT_FLAG_DROPSHADOW) AddVertices(shadowV, ...)
BackgroundQuads(flags, c, x, y) ==
    IF "TEXT_FLAG_OUTLINE" \in flags THEN <<Quad("outline", c, x, y)>>
    ELSE IF "TEXT_FLAG_DROPSHADOW" \in flags THEN <<Quad("shadow", c, x, y)>>
    ELSE <<>>

\* mutant: the cursor advances by the whole cell
CursorAdvance_Cell(w, spacing) == w

\* pos.x += w - (2.f * this->_charSpacing)
CursorAdvance(w, spacing) == w - 2 * spacing

\* the loop of RenderText over the characters of the segments from character i
\* on: the AddVertices calls and the cursor it ends with
RECURSIVE RenderTextLoop(_, _, _, _, _, _, _, _, _)
RenderTextLoop(str, i, coords, spacing, flags, startX, x, y, quads) ==
    IF i > Len(str) THEN [flags |-> flags, quads |-> quads, x |-> x, y |-> y]
    ELSE LET c == str[i]
         IN  IF c = Newline
             THEN LET found == CoordsAfterSubscript(coords, Space)
                  IN  RenderTextLoop(str, i + 1, found, spacing, flags, startX, startX,
                                     y + (found[Space][4] - found[Space][2]), quads)
             ELSE IF c < Space \/ c \notin DOMAIN coords
                  THEN RenderTextLoop(str, i + 1, coords, spacing, flags, startX, x, y, quads)
                  ELSE LET w == coords[c][3] - coords[c][1]
                           added == IF c # Space
                                    THEN BackgroundQuads(flags, c, x, y)
                                         \o <<Quad("glyph", c, x, y)>>
                                    ELSE <<>>
                       IN  RenderTextLoop(str, i + 1, coords, spacing, flags, startX,
                                          x + CursorAdvance(w, spacing), y, quads \o added)

\* Font::RenderText(renderList, pos, text, color, flags, ...) for a text without
\* tags, whose one segment is the text, no alignment flag and pos = <<0, 0>>:
\* pos.x -= _charSpacing; startX = pos.x
RenderText(str, coords, spacing, flags) ==
    RenderTextLoop(str, 1, coords, spacing, flags, 0 - spacing, 0 - spacing, 0, <<>>)

\* Font::RenderText on an initialized font, once per font
FontRenderText ==
    /\ atlasResult = "S_OK"
    /\ rendered = NotRendered
    /\ \E str \in MeasuredTexts, flags \in SUBSET QuadFlags :
        /\ text' = str
        /\ rendered' = RenderText(str, _charCoords, _charSpacing, flags)
    /\ _charCoords' = IF \E k \in 1..Len(text') : text'[k] = Newline
                      THEN CoordsAfterSubscript(_charCoords, Space)
                      ELSE _charCoords
    /\ UNCHANGED <<backend, listVars, rendererVars, hostVars, auxVars, geomVars, refVars, textFlags, textSegments,
                   textPc, extent, glyphs, _textureWidth, _textureHeight, _charSpacing,
                   atlasResult, firstBuild>>

vars == <<backend, listVars, rendererVars, hostVars, textVars, atlasVars, auxVars, geomVars, refVars>>

\* RenderList::RenderList(maxVertices): reserve only, both sequences empty
InitList ==
    /\ backend \in Backends
    /\ _vertices = <<>>
    /\ _batches = <<>>
    /\ callKeys = <<>>
    /\ InitRenderer(LargeHint)
    /\ device = DefaultDevice
    /\ hostState = DefaultDevice
    /\ phase = "idle"
    /\ lastCall = "ctor"
    /\ threw = FALSE
    /\ lastRender = NoRender
    /\ text = <<>> /\ textFlags = {} /\ textSegments = <<>> /\ textPc = "none"
    /\ extent = NoExtent /\ rendered = NotRendered
    /\ NewAtlas(NoGlyphs)
    /\ auxList = EmptyList /\ auxRendered = FALSE
    /\ shapes = <<>> /\ cleared = NotCleared
    /\ heldRefs = NoRefs

NextList == AddVerticesArray \/ AddVerticesPtr \/ Clear

SpecList == InitList /\ [][NextList]_vars

\* shapes are drawn into the default list and their vertices looked at
NextGeom == LineAt \/ CircleAt \/ ClearShapes

SpecGeom == InitList /\ [][NextGeom]_vars


\* a Renderer was constructed on a device of the host application
InitFrame ==
    /\ backend \in Backends
    /\ _vertices = <<>>
    /\ _batches = <<>>
    /\ callKeys = <<>>
    /\ \E hint \in {SmallHint, LargeHint} : InitRenderer(hint)
    /\ device \in HostDevices
    /\ hostState = device
    /\ phase = "idle"
    /\ lastCall = "ctor"
    /\ threw = FALSE
    /\ lastRender = NoRender
    /\ text = <<>> /\ textFlags = {} /\ textSegments = <<>> /\ textPc = "none"
    /\ extent = NoExtent /\ rendered = NotRendered
    /\ NewAtlas(NoGlyphs)
    /\ auxList = EmptyList /\ auxRendered = FALSE
    /\ shapes = <<>> /\ cleared = NotCleared
    /\ heldRefs = NoRefs

NextFrame ==
    \/ BeginFrame
    \/ AddRectFilled
    \/ AddRect
    \/ AddGradientRect
    \/ AddLine
    \/ AddCircle
    \/ Render
    \/ EndFrame
    \/ HostRender
    \/ AddFont
    \/ AddText
    \/ RendererCalculateTextExtent
    \/ OnLostDevice
    \/ OnResetDevice

SpecFrame == InitFrame /\ [][NextFrame]_vars

\* frames of a host that also draws through a render list of its own
NextAux ==
    \/ BeginFrame
    \/ AddRectFilled
    \/ CreateRenderList
    \/ AddRectFilledTo
    \/ AddLineTo
    \/ RenderAux
    \/ ClearAux
    \/ Render
    \/ EndFrame

SpecAux == InitFrame /\ [][NextAux]_vars

\* frames whose list is filled by the caller's own AddVertices calls
AddVerticesInFrame ==
    /\ phase = "frame"
    /\ Len(callKeys) < MaxListCalls
    /\ AddVerticesArray

NextDraw == BeginFrame \/ AddVerticesInFrame \/ Render \/ EndFrame

SpecDraw == InitFrame /\ [][NextDraw]_vars

\* a Font of a Renderer is about to be handed a markup text
InitText ==
    /\ backend \in Backends
    /\ _vertices = <<>>
    /\ _batches = <<>>
    /\ callKeys = <<>>
    /\ InitRenderer(LargeHint)
    /\ device = DefaultDevice
    /\ hostState = DefaultDevice
    /\ phase = "idle"
    /\ lastCall = "ctor"
    /\ threw = FALSE
    /\ lastRender = NoRender
    /\ text \in Texts(MaxPieces)
    /\ textFlags \in SUBSET TextFlags
    /\ textSegments = <<>>
    /\ textPc = "given"
    /\ extent = NoExtent /\ rendered = NotRendered
    /\ NewAtlas(NoGlyphs)
    /\ auxList = EmptyList /\ auxRendered = FALSE
    /\ shapes = <<>> /\ cleared = NotCleared
    /\ heldRefs = NoRefs

NextText == CallPreprocessText

SpecText == InitText /\ [][NextText]_vars

\* a Font was constructed for a font with some glyph sizes; its Initialize
\* runs, and runs again at every OnResetDevice
InitAtlas ==
    /\ backend \in Backends
    /\ _vertices = <<>>
    /\ _batches = <<>>
    /\ callKeys = <<>>
    /\ InitRenderer(LargeHint)
    /\ device = DefaultDevice
    /\ hostState = DefaultDevice
    /\ phase = "idle"
    /\ lastCall = "ctor"
    /\ threw = FALSE
    /\ lastRender = NoRender
    /\ text = <<>> /\ textFlags = {} /\ textSegments = <<>> /\ textPc = "none"
    /\ extent = NoExtent /\ rendered = NotRendered
    /\ \E g \in GlyphReports : NewAtlas(g)
    /\ auxList = EmptyList /\ auxRendered = FALSE
    /\ shapes = <<>> /\ cleared = NotCleared
    /\ heldRefs = NoRefs

NextAtlas ==
    \/ BuildAtlas
    \/ FontCalculateTextExtent

SpecAtlas == InitAtlas /\ [][NextAtlas]_vars

\* a Font is built and draws a text
NextGlyph ==
    \/ BuildAtlas
    \/ FontRenderText

\* the fonts that draw: the texts are written with L' ' and the character
\* after it, the further characters of the range are all as wide as that one
InitGlyph ==
    /\ InitAtlas
    /\ \A c \in Chars : c > Space + 1 => glyphs.cx[c] = glyphs.cx[Space + 1]

SpecGlyph == InitGlyph /\ [][NextGlyph]_vars

\* a Font is built, lost and rebuilt for glyphs of different widths and heights
InitShelf ==
    /\ backend \in Backends
    /\ _vertices = <<>>
    /\ _batches = <<>>
    /\ callKeys = <<>>
    /\ InitRenderer(LargeHint)
    /\ device = DefaultDevice
    /\ hostState = DefaultDevice
    /\ phase = "idle"
    /\ lastCall = "ctor"
    /\ threw = FALSE
    /\ lastRender = NoRender
    /\ text = <<>> /\ textFlags = {} /\ textSegments = <<>> /\ textPc = "none"
    /\ extent = NoExtent /\ rendered = NotRendered
    /\ \E g \in ShelfReports : NewAtlas(g)
    /\ auxList = EmptyList /\ auxRendered = FALSE
    /\ shapes = <<>> /\ cleared = NotCleared
    /\ heldRefs = NoRefs

NextShelf == ConstructAtlas \/ RebuildAtlas

SpecShelf == InitShelf /\ [][NextShelf]_vars

-----------------------------------------------------------------------------
(* Vocabulary of the properties of the RenderList *)

RECURSIVE SumCounts(_)
SumCounts(batches) ==
    IF batches = <<>> THEN 0
    ELSE batches[1].count + SumCounts(Tail(batches))

\* Owners(batches, 1): for every vertex position in turn, the index of the batch
\* whose range [offset, offset + count) holds it, offset being the sum of the
\* counts of the batches before it.
RECURSIVE Owners(_, _)
Owners(batches, b) ==
    IF batches = <<>> THEN <<>>
    ELSE [i \in 1..batches[1].count |-> b] \o Owners(Tail(batches), b + 1)

IsStripKind(topology) == topology \in {"LINESTRIP", "TRIANGLESTRIP"}

SameKeyCalls == callKeys # <<>> /\ \A c \in 1..Len(callKeys) : callKeys[c] = callKeys[1]

-----------------------------------------------------------------------------
(* Properties of the RenderList, checked under SpecList *)

\* C1 as stated: after any non-empty run of AddVertices calls with one
\* (topology, texture) pair on an empty list, whatever the topology, the list
\* holds exactly one batch and its count is the number of vertices appended.
C1_OneBatchAnyTopology ==
    SameKeyCalls =>
        /\ Len(_batches) = 1
        /\ _batches[1].count = Len(_vertices)

\* C1 amended: the same, for every pair whose topology is not a strip kind.
C1_OneBatchNonStrip ==
    (SameKeyCalls /\ ~IsStripKind(callKeys[1][1])) =>
        /\ Len(_batches) = 1
        /\ _batches[1].count = Len(_vertices)

\* C1 witness: three calls with one non-strip pair have coalesced.
C1_Witness ==
    /\ SameKeyCalls
    /\ Len(callKeys) >= 2
    /\ ~IsStripKind(callKeys[1][1])
    /\ Len(_vertices) >= 2
    /\ _vertices[1] # _vertices[Len(_vertices)]

\* C2: the vertices of the call that follows a strip call never share a batch
\* with the strip call's vertices, even when both calls use the same pair.
C2_StripNotMerged ==
    LET owner == Owners(_batches, 1)
    IN  \A i, j \in 1..Len(_vertices) :
            (/\ _vertices[j] = _vertices[i] + 1
             /\ IsStripKind(callKeys[_vertices[i]][1])
             /\ i <= Len(owner) /\ j <= Len(owner))
            => owner[i] # owner[j]

\* C2 witness: a strip call and the next call, same pair, both with vertices.
C2_Witness ==
    \E i, j \in 1..Len(_vertices) :
        /\ _vertices[j] = _vertices[i] + 1
        /\ IsStripKind(callKeys[_vertices[i]][1])
        /\ callKeys[_vertices[j]] = callKeys[_vertices[i]]

\* C3: the batch counts sum to the number of stored vertices, so the ranges
\* [offset(b), offset(b) + count(b)) tile the vertex sequence, and the batch
\* whose range holds a vertex carries the topology and texture of the call that
\* appended the vertex.
C3_BatchesIndexVertices ==
    LET owner == Owners(_batches, 1)
    IN  /\ SumCounts(_batches) = Len(_vertices)
        /\ Len(owner) = Len(_vertices)
        /\ \A i \in 1..Len(_vertices) :
              <<_batches[owner[i]].topology, _batches[owner[i]].texture>>
                  = callKeys[_vertices[i]]

\* C3 witness: several batches, one of them empty, and vertices of several calls.
C3_Witness ==
    /\ Len(_batches) >= 3
    /\ \E b \in 1..Len(_batches) : _batches[b].count = 0
    /\ \E b \in 1..Len(_batches) : _batches[b].count >= 2
    /\ Len(_vertices) >= 3

-----------------------------------------------------------------------------
(* Vocabulary of the properties of a frame *)

\* the device items the renderer sets between BeginFrame and EndFrame
\*   dx9: what the render state block applies, and SetTexture in Render
\*   dx11: the Set* calls of BeginFrame and of the draw loop of Render
FrameItems ==
    IF backend = "dx9"
    THEN {"RenderStates", "FVF", "Texture0", "StreamSource", "PixelShader"}
    ELSE {"Viewports", "VertexBuffer", "VSConstantBuffer", "InputLayout", "VS", "PS",
          "PSSampler", "BlendState", "DepthStencilState", "RS",
          "ScissorRects", "PSShaderResource", "PrimitiveTopology"}

\* the batches of a list that hold vertices of a drawable topology
RECURSIVE NonEmptyBatches(_)
NonEmptyBatches(batches) ==
    IF batches = <<>> THEN <<>>
    ELSE IF batches[1].count > 0 /\ batches[1].topology # "FORCE_DWORD"
         THEN <<batches[1]>> \o NonEmptyBatches(Tail(batches))
         ELSE NonEmptyBatches(Tail(batches))

\* draw k of the last Render used the topology and texture of batch k of batches
DrawsFollow(batches) ==
    /\ Len(lastRender.draws) = Len(batches)
    /\ \A k \in 1..Len(lastRender.draws) :
          k <= Len(batches) =>
              /\ lastRender.draws[k].topology = batches[k].topology
              /\ lastRender.draws[k].texture = batches[k].texture

RenderReturned == lastCall = "Render" /\ ~threw

-----------------------------------------------------------------------------
(* Properties of a frame, checked under SpecFrame *)

\* C4 as stated: when EndFrame has returned, every device item the renderer
\* sets during a frame holds the value it held right before BeginFrame,
\* whatever was drawn and however many vertices the frame held.
C4_FrameStateNeutral ==
    lastCall = "EndFrame" => \A i \in FrameItems : device[i] = hostState[i]

C6_UploadFitsBuffer ==
    \A k \in 1..Len(lastRender.uploads) :
        lastRender.uploads[k].n <= lastRender.uploads[k].capacity

\* C7 as stated: when OnResetDevice has returned after OnLostDevice, the vertex
\* buffer, every other device object the renderer owns and the texture of
\* every registered font exist.
C7_ResourcesExistAfterReset ==
    (lastCall = "OnResetDevice" /\ ~threw) =>
        /\ _vertexBuffer.id # 0
        /\ \A m \in DOMAIN _resources : _resources[m] # nullptr
        /\ backend = "dx9" =>
              /\ _d3dPreviousStateBlock.ptr # nullptr
              /\ _d3dRenderStateBlock.ptr # nullptr
        /\ \A h \in DOMAIN _fonts : _fonts[h]._fontTexture # nullptr

\* C8 as stated: a font is uninitialized from OnLostDevice until the next
\* OnResetDevice that succeeds, and initialized after a construction or an
\* OnResetDevice that succeeded.
C8_FontTwoStates ==
    \A h \in DOMAIN _fonts :
        IF _fonts[h].lost
        THEN ~IsInitialized(_fonts[h])
        ELSE IsInitialized(_fonts[h])

-----------------------------------------------------------------------------
(* Vocabulary of the properties of PreprocessText *)

HexDigitChars ==
    {"0", "1", "2", "3", "4", "5", "6", "7", "8", "9",
     "a", "b", "c", "d", "e", "f", "A", "B", "C", "D", "E", "F"}

\* position p (1-based) of str starts '{#', n hexadecimal digits and '}'
WellFormedTagAt(str, p, n) ==
    /\ p + n + 2 <= Len(str)
    /\ str[p] = "{" /\ str[p + 1] = "#"
    /\ \A k \in (p + 2)..(p + n + 1) : str[k] \in HexDigitChars
    /\ str[p + n + 2] = "}"

\* the length of the well-formed tag that starts at p, 0 if none does
TagLengthAt(str, p) ==
    IF WellFormedTagAt(str, p, 6) THEN 9
    ELSE IF WellFormedTagAt(str, p, 8) THEN 11 ELSE 0

\* str from p on with every well-formed tag removed and nothing else
RECURSIVE WithoutTags(_, _)
WithoutTags(str, p) ==
    IF p > Len(str) THEN <<>>
    ELSE IF TagLengthAt(str, p) > 0 THEN WithoutTags(str, p + TagLengthAt(str, p))
         ELSE <<str[p]>> \o WithoutTags(str, p + 1)

\* the segment texts, concatenated in order
RECURSIVE SegmentTexts(_)
SegmentTexts(segs) ==
    IF segs = <<>> THEN <<>> ELSE segs[1][1] \o SegmentTexts(Tail(segs))

\* str has a '{#' and none of its '{#' starts a well-formed tag
OnlyMalformedTags(str) ==
    /\ \E p \in 1..(Len(str) - 1) : str[p] = "{" /\ str[p + 1] = "#"
    /\ \A p \in 1..Len(str) : TagLengthAt(str, p) = 0

\* the color a well-formed tag of n digits at p stands for: the digits as a
\* 32-bit value, a 6-digit tag with 0xFF as its top byte
TagColor(str, p, n) ==
    LET digits == [k \in 1..n |-> HexValue[str[p + 1 + k]]]
    IN  IF n = 8 THEN digits ELSE <<15, 15>> \o digits

\* str from p on without its well-formed tags, every character paired with
\* the color of the nearest well-formed tag before it, color if there is none
RECURSIVE ColoredWithoutTags(_, _, _)
ColoredWithoutTags(str, p, color) ==
    IF p > Len(str) THEN <<>>
    ELSE IF TagLengthAt(str, p) > 0
         THEN ColoredWithoutTags(str, p + TagLengthAt(str, p),
                                 TagColor(str, p, TagLengthAt(str, p) - 3))
         ELSE << <<str[p], color>> >> \o ColoredWithoutTags(str, p + 1, color)

\* the characters of the segments in order, each paired with its segment's color
RECURSIVE SegmentChars(_)
SegmentChars(segs) ==
    IF segs = <<>> THEN <<>>
    ELSE [k \in 1..Len(segs[1][1]) |-> <<segs[1][1][k], segs[1][2]>>]
         \o SegmentChars(Tail(segs))

\* no position of str starts a well-formed tag
NoWellFormedTag(str) == \A p \in 1..Len(str) : TagLengthAt(str, p) = 0

-----------------------------------------------------------------------------
(* Properties of PreprocessText, checked under SpecText *)

\* C9 as stated: the segment texts PreprocessText returned, concatenated in
\* order, are the input with every well-formed color tag removed and nothing
\* else removed, wherever in the text the tags are.
C9_SegmentsAreTextWithoutTags ==
    textPc = "parsed" => SegmentTexts(textSegments) = WithoutTags(text, 1)

\* C10 as stated, for a text all of whose '{#' are malformed (wrong number of
\* digits, a non-hexadecimal character among the digits, no closing brace):
\* every one of them is copied to the output and none changes the color, so
\* PreprocessText returned the whole text as one segment of the default color.
C10_MalformedTagsVerbatim ==
    (textPc = "parsed" /\ OnlyMalformedTags(text)) =>
        textSegments = << <<text, DefaultColor>> >>

\* C11 as stated: when RenderText was called without TEXT_FLAG_COLORTAGS, it
\* laid the whole text out as one segment in the caller's color, '{#...}'
\* sequences included.
C11_NoFlagNoParsing ==
    (textPc = "parsed" /\ "TEXT_FLAG_COLORTAGS" \notin textFlags /\ text # <<>>) =>
        textSegments = << <<text, DefaultColor>> >>

\* C12 as stated: every segment PreprocessText returned has the color of the
\* nearest well-formed tag that precedes its text in the input (a 6-digit tag
\* with alpha byte 0xFF), or the caller's color when no tag precedes it.
C12_SegmentColorIsLastTag ==
    textPc = "parsed" =>
        SegmentChars(textSegments) = ColoredWithoutTags(text, 1, DefaultColor)

\* C13 as stated: for a text without a color tag, the empty text included,
\* PreprocessText returned exactly one segment: the text, in the caller's color.
C13_NoTagOneSegment ==
    (textPc = "parsed" /\ NoWellFormedTag(text)) =>
        textSegments = << <<text, DefaultColor>> >>

-----------------------------------------------------------------------------
(* Properties of the glyph atlas, checked under SpecAtlas *)

\* the packing pass, run on an atlas of the seed size, runs out of space
DoesNotFitSeed ==
    /\ glyphs # NoGlyphs
    /\ glyphs.cx[1] # Unmeasurable
    /\ RenderAlphabet(glyphs, SeedSize, SeedSize, <<>>, TRUE).hr = "E_NOT_SUFFICIENT_BUFFER"

\* C14 as stated: when the atlas of a character range that does not fit the
\* seed size was built (every call of the rasterizer that draws succeeding),
\* RenderAlphabet returned S_OK, width and height are at least twice the seed
\* size, and every measurable character has its entry in _charCoords.
C14_AtlasBuildSucceeds ==
    (DoesNotFitSeed /\ atlasResult \in {"S_OK", "E_NOT_SUFFICIENT_BUFFER"}) =>
        /\ atlasResult = "S_OK"
        /\ _textureWidth >= 2 * SeedSize
        /\ _textureHeight >= 2 * SeedSize
        /\ \A c \in Chars : glyphs.cx[c] # Unmeasurable => c \in DOMAIN _charCoords

-----------------------------------------------------------------------------
(* Properties of the font handles, checked under SpecFrame *)

\* C15: AddText, and the renderer's CalculateTextExtent, called with a handle
\* that AddFont never returned throws, and the step changes neither the render
\* list nor the font registry; the renderer keeps taking calls afterwards.
C15_UnknownHandleLocal ==
    [][\A fontId \in Handles :
          (fontId \notin DOMAIN _fonts
              /\ (AddTextWith(fontId) \/ CalculateTextExtentWith(fontId)))
          => (threw' /\ UNCHANGED <<_vertices, _batches, _fonts, _nextFontId>>)]_vars

\* C15 witness: AddText has thrown in a frame that already holds geometry, on
\* a renderer with a registered font.
C15_Witness ==
    /\ lastCall = "AddText" /\ threw
    /\ Len(_vertices) > 0
    /\ Len(_fonts) > 0

-----------------------------------------------------------------------------
(* Properties of the host's render list, checked under SpecAux *)

\* C16 (as stated): when a frame has ended, every render list that was drawn
\* in it, the default list and a list of the host handed to Render(list), is
\* empty.
C16_RenderedListsEmptyAtFrameEnd ==
    (lastCall = "EndFrame" /\ ~threw)
        => /\ TheList = EmptyList
           /\ auxRendered => auxList = EmptyList

-----------------------------------------------------------------------------
(* Properties of Font::CalculateTextExtent, checked under SpecAtlas *)

\* the positions of the newline characters of str
NewlinesOf(str) == {i \in 1..Len(str) : str[i] = Newline}

\* what the cursor advances by for a character: the width the rasterizer
\* reported for a printable character of the atlas, nothing for any other
AdvanceOf(c) ==
    IF c >= Space /\ c \in Chars /\ glyphs.cx[c] # Unmeasurable THEN glyphs.cx[c] ELSE 0

\* the sum of the advances of the characters i..j of str
RECURSIVE SumAdvances(_, _, _)
SumAdvances(str, i, j) ==
    IF i > j THEN 0 ELSE AdvanceOf(str[i]) + SumAdvances(str, i + 1, j)

\* the widths of the rows of str, a row lying between two neighbouring ends
RowWidths(str) ==
    LET ends == {0, Len(str) + 1} \cup NewlinesOf(str)
    IN  {SumAdvances(str, p + 1, q - 1) :
            <<p, q>> \in {e \in ends \X ends :
                            e[1] < e[2] /\ \A m \in ends : ~(e[1] < m /\ m < e[2])}}

MaxOf(S) == CHOOSE m \in S : \A w \in S : w <= m

\* C17: CalculateTextExtent on an initialized font returns the line height
\* (the height of the font) once per row and, as the width, the largest sum
\* of advances of the mapped printable characters of a row.
C17_ExtentIsRowsAndLines ==
    extent # NoExtent =>
        /\ extent.height = glyphs.cy[Space] * (1 + Cardinality(NewlinesOf(text)))
        /\ extent.width = MaxOf(RowWidths(text))

\* C17 witness: the text "a\nbb" of two mapped characters was measured as
\* two lines and as wide as its second, wider row
C17_Witness ==
    /\ extent # NoExtent
    /\ text = TwoRows
    /\ Space + 1 \in DOMAIN _charCoords
    /\ glyphs.cx[Space + 1] < 2 * glyphs.cx[Space]
    /\ extent = [width |-> 2 * glyphs.cx[Space], height |-> 2 * glyphs.cy[Space]]

-----------------------------------------------------------------------------
(* Properties of the vertices of shapes, checked under SpecGeom *)

\* C18 (as stated): no vertex of the render list has a position that came out
\* of a division by a zero length: AddLine with v1 = v2 appends none.
C18_NoNaNVertex ==
    \A i \in 1..Len(_vertices) : ~_vertices[i].nan

\* C19: a Circle call with segments >= 1 appends exactly segments + 1
\* vertices, the k-th at angle index k - 1 of segments around its centre (so
\* the first at index 0 and the last at index segments, a full turn on), in
\* one new line-strip batch of its own that is closed by a break batch, so
\* that the next Circle opens another batch.
C19_CircleIsOneClosedStrip ==
    [][\A pos \in Points, segments \in 1..MaxSegments :
          CircleWith(pos, segments) =>
              /\ Len(_vertices') = Len(_vertices) + segments + 1
              /\ SubSeq(_vertices', 1, Len(_vertices)) = _vertices
              /\ \A i \in 0..segments :
                    _vertices'[Len(_vertices) + 1 + i] =
                        [nan |-> FALSE, at |-> pos, offset |-> <<"angle", i, segments>>]
              /\ _batches' = _batches \o <<Batch(segments + 1, "LINESTRIP", ShapeTexture),
                                           BreakBatch>>]_vars

\* C19 witness: two Circle calls in a row left two line strips, each with its
\* own batch and its own break batch
C19_Witness ==
    /\ Len(callKeys) = 2
    /\ \A k \in 1..2 : callKeys[k][1] = "LINESTRIP"
    /\ Len(_batches) = 4
    /\ _batches[1].topology = "LINESTRIP" /\ _batches[3].topology = "LINESTRIP"
    /\ Len(_vertices) = _batches[1].count + _batches[3].count
    /\ _vertices[1].offset[2] = 0
    /\ _vertices[_batches[1].count].offset[2] = _vertices[1].offset[3]

\* the list a freshly constructed RenderList becomes by the shape calls s
RECURSIVE OnFreshList(_)
OnFreshList(s) ==
    IF s = <<>> THEN [vertices |-> <<>>, batches |-> <<>>]
    ELSE LET before == OnFreshList(SubSeq(s, 1, Len(s) - 1))
             shape == s[Len(s)]
         IN  IF shape.call = "AddLine"
             THEN AddVertexArray(before, LineVertices(shape.v1, shape.v2),
                                 IF backend = "dx9" THEN "TRIANGLESTRIP" ELSE "LINELIST",
                                 ShapeTexture)
             ELSE AddVertexArray(before, CircleVertices(shape.v1, shape.segments),
                                 "LINESTRIP", ShapeTexture)

\* C20: the vertices and the batches of a list that was cleared and then
\* appended to are those a freshly constructed list has after the same
\* appends, whatever the list held when it was cleared.
C20_ClearedListAsFresh ==
    cleared # NotCleared => TheList = OnFreshList(shapes)

\* C20 witness: a list that held vertices was cleared and two shapes, a
\* circle the later, were appended since
C20_Witness ==
    /\ cleared # NotCleared /\ cleared > 0
    /\ Len(shapes) = 2
    /\ shapes[2].call = "AddCircle"
    /\ Len(_batches) >= 3

-----------------------------------------------------------------------------
(* Further properties of the RenderList, checked under SpecList *)

\* C21 (as stated): a batch has count 0 only if it is the break batch that
\* follows a strip batch; the batch that follows a strip batch keeps count 0;
\* and the topology of the break batch is one no draw call is issued for.
C21_OnlyBreakBatchesEmpty ==
    /\ \A i \in 1..Len(_batches) :
          _batches[i].count = 0 =>
              /\ i > 1
              /\ IsStripKind(_batches[i - 1].topology)
              /\ _batches[i].topology = BreakBatch.topology
    /\ \A i \in 2..Len(_batches) :
          IsStripKind(_batches[i - 1].topology) => _batches[i].count = 0
    /\ GetTopologyOrder(BreakBatch.topology) = 0

-----------------------------------------------------------------------------
\* C28 (as stated): vertices of two different AddVertices calls lie in one
\* batch only if the batch's topology is a list kind (point, line or triangle
\* list); the vertices of a strip or fan call form a batch of their own.
C28_OnlyListsShareBatches ==
    LET owner == Owners(_batches, 1)
    IN  \A i, j \in 1..Len(_vertices) :
            (/\ i <= Len(owner) /\ j <= Len(owner)
             /\ _vertices[i] # _vertices[j]
             /\ owner[i] = owner[j])
            => IsTopologyList(_batches[owner[i]].topology)

(* Further properties of the frame, checked under SpecFrame *)

\* C22 (as stated): when EndFrame has returned, no reference that the state
\* save of BeginFrame took on a handle is still held, and none was released
\* that the save did not take: every count is back where it was.
C22_FrameKeepsReferenceCounts ==
    (lastCall = "EndFrame" /\ ~threw) => \A i \in RefCountedItems : heldRefs[i] = 0

\* C23 (as stated): a Direct3D 9 Render that grew the vertex buffer and
\* returned has issued every draw call of the frame with the new buffer, the
\* one the frame's vertices were uploaded to, as the device's stream source.
C23_DrawsReadGrownBuffer ==
    [][(backend = "dx9" /\ Render /\ Len(_vertices) > _maxVertices /\ ~threw')
          => /\ _vertexBuffer' # _vertexBuffer
             /\ \A k \in 1..Len(lastRender'.uploads) :
                   lastRender'.uploads[k].id = _vertexBuffer'.id
             /\ \A k \in 1..Len(lastRender'.draws) :
                   lastRender'.draws[k].source = _vertexBuffer']_vars

(* The vertex ranges of the draw calls, checked under SpecDraw *)

\* the number of vertices a draw call reads from the vertex buffer
\*   dx9: DrawPrimitive(type, start, primitiveCount)
\*   dx11: Draw(vertexCount, start)
VerticesRead(draw) ==
    IF backend = "dx9"
    THEN LET order == GetTopologyOrder(draw.topology)
         IN  IF draw.count = 0 THEN 0
             ELSE IF IsTopologyList(draw.topology) THEN draw.count * order
             ELSE draw.count + order - 1
    ELSE draw.count

\* <<start, length>> of every batch that holds vertices, start being the sum of
\* the counts of the batches before it
RECURSIVE BatchRanges(_, _)
BatchRanges(batches, pos) ==
    IF batches = <<>> THEN <<>>
    ELSE (IF batches[1].count > 0 THEN <<<<pos, batches[1].count>>>> ELSE <<>>)
         \o BatchRanges(Tail(batches), pos + batches[1].count)

\* <<start, length>> of every draw call that reads vertices
RECURSIVE DrawRanges(_)
DrawRanges(draws) ==
    IF draws = <<>> THEN <<>>
    ELSE (IF VerticesRead(draws[1]) # 0
          THEN <<<<draws[1].start, VerticesRead(draws[1])>>>> ELSE <<>>)
         \o DrawRanges(Tail(draws))

\* C24 (as stated): the draw calls of a Render that returned read, in order,
\* exactly the vertex ranges of the list's batches: each starts at the sum of
\* the counts of all batches before its own and spans its own batch's count.
C24_DrawsCoverBatches ==
    RenderReturned => DrawRanges(lastRender.draws) = BatchRanges(lastRender.batches, 0)

(* Properties of the glyph atlas, checked under SpecShelf *)

\* C27 (as stated): after a successful build every entry of _charCoords is a
\* non-degenerate rectangle inside the atlas of the final dimensions:
\* 0 <= x0 < x1 <= _textureWidth and 0 <= y0 < y1 <= _textureHeight.
C27_CellsInsideAtlas ==
    atlasResult = "S_OK" =>
        \A c \in DOMAIN _charCoords :
            /\ 0 <= _charCoords[c][1] /\ _charCoords[c][1] < _charCoords[c][3]
            /\ _charCoords[c][3] <= _textureWidth
            /\ 0 <= _charCoords[c][2] /\ _charCoords[c][2] < _charCoords[c][4]
            /\ _charCoords[c][4] <= _textureHeight

\* two rectangles <<x0, y0, x1, y1>> share a texel
Overlap(a, b) == a[1] < b[3] /\ b[1] < a[3] /\ a[2] < b[4] /\ b[2] < a[4]

\* C29 (as stated): after a successful build the cells of two distinct
\* characters do not overlap, whatever the widths and heights of the glyphs.
C29_CellsDisjoint ==
    atlasResult = "S_OK" =>
        \A c, d \in DOMAIN _charCoords :
            c # d => ~Overlap(_charCoords[c], _charCoords[d])

\* C30: a rebuild of the font that succeeds, the glyph sizes being what they
\* were, leaves the atlas as the constructor built it: the width, the height,
\* the spacing and the coordinate map are those of the first build.
C30_RebuildIsIdempotent ==
    (firstBuild.rebuilt /\ atlasResult = "S_OK") =>
        /\ _textureWidth = firstBuild.width
        /\ _textureHeight = firstBuild.height
        /\ _charSpacing = firstBuild.spacing
        /\ _charCoords = firstBuild.coords

\* a font of several shelves was rebuilt with success
C30_Witness ==
    /\ firstBuild.rebuilt /\ atlasResult = "S_OK"
    /\ \E c, d \in DOMAIN _charCoords : _charCoords[c][2] < _charCoords[d][2]

(* Properties of Font::RenderText, checked under SpecGlyph *)

\* the characters of the text RenderText draws a glyph for
DrawnChars ==
    {k \in 1..Len(text) : text[k] > Space /\ text[k] \in DOMAIN _charCoords}

\* the quad RenderText is to put behind every glyph, if any
BackgroundKind(flags) ==
    IF "TEXT_FLAG_OUTLINE" \in flags THEN "outline"
    ELSE IF "TEXT_FLAG_DROPSHADOW" \in flags THEN "shadow"
    ELSE "none"

\* C25: RenderText appends one glyph quad per printable, mapped, non-space
\* character and at most one quad behind it, immediately before it: the outline
\* quad if the outline flag is set (the drop-shadow flag set or not), else the
\* shadow quad if the drop-shadow flag is set, else none; never both.
C25_OneBackgroundQuad ==
    rendered # NotRendered =>
        LET q == rendered.quads
            kind == BackgroundKind(rendered.flags)
        IN  /\ Cardinality({k \in 1..Len(q) : q[k].kind = "glyph"}) = Cardinality(DrawnChars)
            /\ \A k \in 1..Len(q) :
                  IF q[k].kind = "glyph"
                  THEN IF kind = "none"
                       THEN k = 1 \/ q[k - 1].kind = "glyph"
                       ELSE k > 1 /\ q[k - 1] = Quad(kind, q[k].c, q[k].x, q[k].y)
                  ELSE /\ q[k].kind = kind
                       /\ k < Len(q) /\ q[k + 1].kind = "glyph"

\* C25 witness: two glyphs were drawn with both flags set.
C25_Witness ==
    /\ rendered # NotRendered
    /\ rendered.flags = QuadFlags
    /\ Cardinality(DrawnChars) = 2
    /\ Len(rendered.quads) = 4

\* the part of the text after its last newline
RECURSIVE LastLine(_)
LastLine(str) ==
    IF str = <<>> \/ Last(str) = Newline THEN <<>>
    ELSE Append(LastLine(SubSeq(str, 1, Len(str) - 1)), Last(str))

\* C26: for a text without tags the cursor of RenderText has advanced, after
\* any number of characters, horizontally by the width CalculateTextExtent
\* gives for the line it is in and vertically by CalculateTextExtent's row
\* height per newline.
C26_CursorFollowsExtent ==
    rendered # NotRendered =>
        LET rowHeight == CalculateTextExtent(<<>>, _charCoords, _charSpacing).height
        IN  \A n \in 0..Len(text) :
                LET p == SubSeq(text, 1, n)
                    r == IF n = Len(text) THEN rendered
                         ELSE RenderText(p, _charCoords, _charSpacing, rendered.flags)
                IN  /\ r.x - (0 - _charSpacing)
                          = CalculateTextExtent(LastLine(p), _charCoords, _charSpacing).width
                    /\ r.y = rowHeight * Cardinality(NewlinesOf(p))
                    /\ r.y + rowHeight
                          = CalculateTextExtent(p, _charCoords, _charSpacing).height

\* C26 witness: L"a\nbb" was drawn, a having a glyph.
C26_Witness ==
    /\ rendered # NotRendered
    /\ text = TwoRows
    /\ Space + 1 \in DOMAIN _charCoords
    /\ rendered.x > 0 /\ rendered.y > 0

=========================================================================
